---------------------------- MODULE Spec2Model ----------------------------
(***************************************************************************)
(* A model of the SoulBios "Bayesian bouncer": the game driver             *)
(* (soulbios_player.py: get_soulbios_strategy, BouncerPolicy, play_game)   *)
(* and the strategy cache of the advisor service                           *)
(* (infrastructure/strategy_cache.py, agents/game_theory_agent.py).        *)
(*                                                                         *)
(* Numbers.  The strategy parameters are Python floats written with two    *)
(* decimals (0.55, 0.4, 0.75, 0.1); the model holds them in hundredths     *)
(* (55, 40, 75, 10) and evaluates every comparison of the source exactly,  *)
(* by cross-multiplication, so  needed / slots >= 0.55 + 0.4 * (f / 1000)  *)
(* becomes  needed * 100000 >= slots * (55 * 1000 + 40 * f).               *)
(***************************************************************************)
EXTENDS Integers, Sequences, FiniteSets, TLC

VARIABLES
    pc,               \* play_game: "start", "running", "completed", "failed", "crashed"
                      \* ("idle" where no game is played)
    constraints,      \* BouncerPolicy.constraints: attribute -> [target, admitted]
    strategy,         \* BouncerPolicy.strategy
    slots_filled,     \* BouncerPolicy.slots_filled
    rejections,       \* BouncerPolicy.rejections
    slots_remaining,  \* BouncerPolicy.slots_remaining
    recent_decisions, \* BouncerPolicy.recent_decisions
    response,         \* play_game: the game server's last response
    result,           \* play_game: the value returned (NoResult while running)
    cycles,           \* number of loop iterations made in this run of the model
    advisor_log,      \* what the advisor calls of this session have been
    last,             \* the last loop iteration: what it saw and what it did
    wire,             \* the persons received and the decisions submitted in
                      \* this run of the model, in order
    cache,            \* StrategyCache.cache: the entries, in insertion order
    stats,            \* StrategyCache.stats
    max_cache_size,   \* StrategyCache.max_cache_size
    now,              \* the clock (datetime.now()), in minutes
    cache_ops,        \* number of cache operations made in this run of the model
    clast,            \* the last cache operation: what it saw and what it did
    payloads,         \* per fingerprint, the strategy the last cache_strategy gave
    sim,              \* the last _calculate_similarity call: arguments and value
    batch,            \* __main__: the scenario loop and what it printed
    tasks,            \* per provider request in flight: where the coroutine
                      \* stands in _process_agent_logic and its locals
    loop_owner,       \* the coroutine the event loop is running (0: none)
    conc_log          \* what the requests have done to the shared cache

playerVars == <<pc, constraints, strategy, slots_filled, rejections,
                slots_remaining, recent_decisions, response, result,
                cycles, advisor_log, last, wire>>

cacheVars == <<cache, stats, max_cache_size, now, cache_ops, clast, payloads>>

concVars == <<tasks, loop_owner, conc_log>>

otherVars == <<batch, concVars>>

vars == <<playerVars, cacheVars, sim, otherVars>>

-----------------------------------------------------------------------------
(* Program constants of soulbios_player.py *)

VenueCapacity == 1000
STRATEGIC_REVIEW_INTERVAL == 100
EmergencyAfterPerson == 450
recent_acceptance_window == 25
DefaultPhaseSwitchPoint == 400
DefaultBaseLeniency == 55
DefaultScalingFactor == 40
DefaultBaseThreshold == 75
DefaultBufferPercent == 10
FailedScore == -1

(* Bounds of the model *)

MaxCycles == 3

NoResult == -2

-----------------------------------------------------------------------------
(* Strategies: the JSON value the advisor returns.  A dict is held as the  *)
(* set of keys it has (the nested keys of early_game_params and            *)
(* late_game_params flattened) and the value of each; an absent key holds  *)
(* 0 and is never read.  "wrong" names the keys whose value has a type the *)
(* arithmetic of the policy rejects (a string for a number).               *)

StrategyKeys == {"policy_type", "phase_switch_point", "early_game_params",
                 "base_leniency", "scaling_factor", "late_game_params",
                 "base_threshold", "buffer_percent", "_ooda_metadata"}

RequiredKeys == StrategyKeys \ {"_ooda_metadata"}

Dict(keys, wrong, pt, psp, bl, sf, bt, bp) ==
    [kind |-> "dict", keys |-> keys, wrong |-> wrong, policy_type |-> pt,
     phase_switch_point |-> psp, base_leniency |-> bl, scaling_factor |-> sf,
     base_threshold |-> bt, buffer_percent |-> bp]

NonDict(kind) ==
    [kind |-> kind, keys |-> {}, wrong |-> {}, policy_type |-> "",
     phase_switch_point |-> 0, base_leniency |-> 0, scaling_factor |-> 0,
     base_threshold |-> 0, buffer_percent |-> 0]

\* play_game's fallback_strategy: it has no buffer_percent key
fallback_strategy ==
    Dict(RequiredKeys \ {"buffer_percent"}, {}, "Hybrid", 400, 55, 40, 75, 0)

\* the shape GameTheoryAgent._validate_strategy accepts
SchemaValid(s) ==
    /\ s.kind = "dict"
    /\ RequiredKeys \subseteq s.keys
    /\ s.wrong = {}

\* JSON objects an advisor may answer with
ObjectBodies ==
    { Dict(StrategyKeys, {}, "Hybrid", 400, 55, 35, 45, 10),
      Dict(StrategyKeys, {}, "Hybrid", 2, 0, 0, 200, 10),
      Dict(RequiredKeys, {}, "MaxUrgency", 400, 0, 0, 45, 10),
      Dict(RequiredKeys, {}, "CombinedValue", 300, 55, 35, 0, 10),
      Dict(RequiredKeys, {}, "Fixed", 400, 55, 35, 150, 20),
      \* schema-invalid: late_game_params is missing
      Dict({"policy_type", "phase_switch_point", "early_game_params",
            "base_leniency", "scaling_factor", "_ooda_metadata"}, {},
           "Hybrid", 1, 55, 35, 0, 0),
      \* schema-invalid: policy_type is missing, without and with metadata
      Dict(RequiredKeys \ {"policy_type"}, {}, "", 2, 55, 35, 45, 10),
      Dict(StrategyKeys \ {"policy_type"}, {}, "", 400, 55, 35, 45, 10),
      \* schema-invalid: policy_type and phase_switch_point are missing
      Dict(RequiredKeys \ {"policy_type", "phase_switch_point"}, {},
           "", 0, 55, 35, 45, 10),
      \* schema-invalid: phase_switch_point is a string
      Dict(RequiredKeys, {"phase_switch_point"}, "Hybrid", 0, 55, 35, 45, 10) }

\* what a call of the advisor can come to
FailureKinds == {"timeout", "http_error", "transport_error", "invalid_json"}

AdvisorOutcomes ==
    [kind : FailureKinds \cup {"json_scalar"}, body : {NonDict("none")}]
    \cup [kind : {"json_list"}, body : {NonDict("list")}]
    \cup [kind : {"json_string"}, body : {NonDict("str")}]
    \cup [kind : {"json_object"}, body : ObjectBodies]

\* a provider that does not catch the JSON decoding error of response.json()
get_soulbios_strategy_uncaught(outcome, fallback) ==
    CASE outcome.kind \in FailureKinds \ {"invalid_json"} -> fallback
      [] outcome.kind = "json_scalar" -> fallback
      [] outcome.kind \in {"json_list", "json_string", "invalid_json"} ->
           outcome.body
      [] OTHER ->
           IF /\ "_ooda_metadata" \in outcome.body.keys
              /\ "policy_type" \notin outcome.body.keys
           THEN fallback
           ELSE outcome.body

\* a provider that falls back to the hardcoded default, not to the strategy
\* it was given as the fallback
get_soulbios_strategy_default(outcome, fallback) ==
    CASE outcome.kind \in FailureKinds -> fallback_strategy
      [] outcome.kind = "json_scalar" -> fallback_strategy
      [] outcome.kind \in {"json_list", "json_string"} -> outcome.body
      [] OTHER ->
           IF /\ "_ooda_metadata" \in outcome.body.keys
              /\ "policy_type" \notin outcome.body.keys
           THEN fallback_strategy
           ELSE outcome.body

\* get_soulbios_strategy: the value returned for an outcome of the POST
get_soulbios_strategy(outcome, fallback) ==
    CASE outcome.kind \in FailureKinds -> fallback
           \* raise_for_status / post / response.json() raise: an except branch
      [] outcome.kind = "json_scalar" -> fallback
           \* '"_ooda_metadata" in 5' raises TypeError: except Exception
      [] outcome.kind \in {"json_list", "json_string"} -> outcome.body
           \* the membership test is False: the value is returned as it is
      [] OTHER ->
           IF /\ "_ooda_metadata" \in outcome.body.keys
              /\ "policy_type" \notin outcome.body.keys
           THEN fallback          \* strategy['policy_type'] raises KeyError
           ELSE outcome.body

\* BouncerPolicy.set_strategy raises AttributeError on strategy.get
\* when the strategy is no dict (after self.strategy is assigned)
SetStrategyRaises(s) == s.kind # "dict"

-----------------------------------------------------------------------------
(* BouncerPolicy *)

PolicyType(s) ==
    IF "policy_type" \in s.keys THEN s.policy_type ELSE "Hybrid"

PhaseSwitchPoint(s) ==
    IF "phase_switch_point" \in s.keys THEN s.phase_switch_point
    ELSE DefaultPhaseSwitchPoint

BaseLeniency(s) ==
    IF {"early_game_params", "base_leniency"} \subseteq s.keys
    THEN s.base_leniency ELSE DefaultBaseLeniency

ScalingFactor(s) ==
    IF {"early_game_params", "scaling_factor"} \subseteq s.keys
    THEN s.scaling_factor ELSE DefaultScalingFactor

BaseThreshold(s) ==
    IF {"late_game_params", "base_threshold"} \subseteq s.keys
    THEN s.base_threshold ELSE DefaultBaseThreshold

BufferPercent(s) ==
    IF {"late_game_params", "buffer_percent"} \subseteq s.keys
    THEN s.buffer_percent ELSE DefaultBufferPercent

Needed(cons, attr) == cons[attr].target - cons[attr].admitted

SetMax(S) == CHOOSE x \in S : \A y \in S : y <= x

RECURSIVE SumNeeded(_, _)
SumNeeded(cons, S) ==
    IF S = {} THEN 0
    ELSE LET x == CHOOSE y \in S : TRUE
         IN  Needed(cons, x) + SumNeeded(cons, S \ {x})

\* the attributes whose urgency the two rules compute
Counted(cons, slots, attrs) ==
    IF slots > 0 THEN attrs \cap DOMAIN cons ELSE {}

\* a panic mode that fires only when the deficit exceeds the slots left
PanicMode_strict(cons, slots, attrs) ==
    \E attr \in DOMAIN cons :
        /\ slots > 0
        /\ Needed(cons, attr) > slots
        /\ attr \in attrs

\* a panic mode without the test that a slot is left
PanicMode_unguarded(cons, slots, attrs) ==
    \E attr \in DOMAIN cons :
        /\ Needed(cons, attr) >= slots
        /\ attr \in attrs

\* the panic-mode loop of should_admit
PanicMode(cons, slots, attrs) ==
    \E attr \in DOMAIN cons :
        /\ slots > 0
        /\ Needed(cons, attr) >= slots
        /\ attr \in attrs

_max_urgency_logic(s, cons, filled, slots, attrs) ==
    LET counted == Counted(cons, slots, attrs)
        max_needed == SetMax({Needed(cons, a) : a \in counted})
    IN  IF counted = {} THEN FALSE
        ELSE IF max_needed >= slots THEN TRUE
        ELSE max_needed * 100 * VenueCapacity
               >= slots * (BaseLeniency(s) * VenueCapacity
                           + ScalingFactor(s) * filled)

_combined_value_logic(s, cons, slots, attrs) ==
    LET counted == Counted(cons, slots, attrs)
        combined_needed == SumNeeded(cons, counted)
    IN  IF combined_needed = 0 THEN FALSE
        ELSE IF combined_needed * 100 >= slots * (100 + BufferPercent(s))
        THEN TRUE
        ELSE combined_needed * 100 >= slots * BaseThreshold(s)

\* a dispatch that applies the phase switch to every policy type
RuleUsed_every_type(s, filled) ==
    IF filled < PhaseSwitchPoint(s)
    THEN "max_urgency"
    ELSE IF PolicyType(s) = "MaxUrgency" THEN "max_urgency"
    ELSE "combined_value"

\* which rule should_admit uses when panic mode does not fire
RuleUsed(s, filled) ==
    IF PolicyType(s) = "Hybrid" /\ filled < PhaseSwitchPoint(s)
    THEN "max_urgency"
    ELSE IF PolicyType(s) = "MaxUrgency" THEN "max_urgency"
    ELSE "combined_value"

\* comparing slots_filled with a phase_switch_point that is no number
ShouldAdmitRaises(s, cons, slots, attrs) ==
    /\ ~PanicMode(cons, slots, attrs)
    /\ PolicyType(s) = "Hybrid"
    /\ "phase_switch_point" \in s.wrong

should_admit(s, cons, filled, slots, attrs) ==
    IF PanicMode(cons, slots, attrs) THEN TRUE
    ELSE IF RuleUsed(s, filled) = "max_urgency"
    THEN _max_urgency_logic(s, cons, filled, slots, attrs)
    ELSE _combined_value_logic(s, cons, slots, attrs)

\* the branch of should_admit that returns the decision
BranchTaken(s, cons, filled, slots, attrs) ==
    IF PanicMode(cons, slots, attrs) THEN "panic" ELSE RuleUsed(s, filled)

\* recent_decisions after update_state
AppendDecision(recent, accepted) ==
    LET r == Append(recent, accepted)
    IN  IF Len(r) > recent_acceptance_window THEN Tail(r) ELSE r

\* a ledger that counts the admission for every tracked attribute
_record_admission_all(cons, attrs) ==
    [a \in DOMAIN cons |-> [cons[a] EXCEPT !.admitted = @ + 1]]

\* constraints after _record_admission
_record_admission(cons, attrs) ==
    [a \in DOMAIN cons |->
        IF a \in attrs
        THEN [cons[a] EXCEPT !.admitted = @ + 1]
        ELSE cons[a]]

\* a venue that counts one slot more than its capacity leaves
SlotsRemainingAfter_one_more(filled) == VenueCapacity - filled + 1

\* slots_remaining as update_state sets it
SlotsRemainingAfter(filled) == VenueCapacity - filled

RECURSIVE CountTrue(_)
CountTrue(s) ==
    IF s = <<>> THEN 0
    ELSE (IF Head(s) THEN 1 ELSE 0) + CountTrue(Tail(s))

\* get_acceptance_rate_in_window(window) == 0
ZeroAcceptanceInWindow(recent, window) ==
    /\ recent # <<>>
    /\ Len(recent) >= window
    /\ CountTrue(SubSeq(recent, Len(recent) - window + 1, Len(recent))) = 0

-----------------------------------------------------------------------------
(* The game server and the session *)

PersonAttrs == {"young", "well_dressed"}

\* the constraints of a scenario, as /new-game returns them
Targets(y, w) == [young |-> [target |-> y, admitted |-> 0],
                  well_dressed |-> [target |-> w, admitted |-> 0]]

Scenarios ==
    { [young |-> [target |-> 600, admitted |-> 0]],
      Targets(2, 1),
      Targets(600, 500) }

\* a response without the key rejectedCount holds NoCount there; a
\* response without the key status holds "missing"
NoCount == -3

NoPerson == [hasNext |-> FALSE, personIndex |-> 0, attributes |-> {},
             status |-> "running", rejectedCount |-> NoCount]

NextPerson(i, attrs) ==
    [hasNext |-> TRUE, personIndex |-> i, attributes |-> attrs,
     status |-> "running", rejectedCount |-> NoCount]

Terminal(status, rejected) ==
    [hasNext |-> FALSE, personIndex |-> 0, attributes |-> {},
     status |-> status, rejectedCount |-> rejected]

\* JSON objects that are no reply of the protocol: an error object without
\* status, and a completed reply without rejectedCount
MalformedReplies ==
    {Terminal("missing", NoCount), Terminal("completed", NoCount)}

\* response['status'] or response['rejectedCount'] raises KeyError
StatusTestRaises(reply) ==
    \/ reply.status = "missing"
    \/ reply.status = "completed" /\ reply.rejectedCount = NoCount

\* a driver that reports 0 rejections for a response without rejectedCount
final_score_zero(resp) ==
    IF resp.rejectedCount = NoCount THEN 0 ELSE resp.rejectedCount

\* response.get('rejectedCount', -1)
final_score(resp) ==
    IF resp.rejectedCount = NoCount THEN FailedScore ELSE resp.rejectedCount

\* str(admit).lower(), the accept parameter of /decide-and-next
AcceptParam(admit) == IF admit THEN "true" ELSE "false"

NoWire == [received |-> <<>>, sent |-> <<>>]

Receive(w, resp) ==
    IF resp.hasNext
    THEN [w EXCEPT !.received = Append(@, resp.personIndex)]
    ELSE w

Submit(w, person_index, admit) ==
    [w EXCEPT !.sent = Append(@, [personIndex |-> person_index,
                                  accept |-> AcceptParam(admit)])]

\* what /decide-and-next answers after the decision on person i; the server
\* counts the rejections it was sent
ServerReplies(i, rejected) ==
    {NextPerson(i + 1, attrs) : attrs \in SUBSET PersonAttrs}
    \cup {Terminal("completed", rejected), Terminal("failed", NoCount)}
    \cup MalformedReplies


\* what the first /decide-and-next (personIndex=0, no decision) answers: the
\* first person, or no person at all (rejectedCount present or not)
FirstResponses ==
    {NextPerson(0, attrs) : attrs \in SUBSET PersonAttrs}
    \cup {Terminal("completed", 0), Terminal("failed", NoCount), NoPerson}

NoOutcome == [kind |-> "no_call", body |-> NonDict("none")]

NoLast ==
    [op |-> "none", person_index |-> 0, attributes |-> {}, cons |-> <<>>,
     slots |-> 0, filled |-> 0, recent |-> <<>>,
     strategy_before |-> fallback_strategy, reviews |-> 0,
     outcome |-> NoOutcome, decided |-> FALSE, admit |-> FALSE,
     rule |-> "none", cause |-> "none", streak |-> 0]

LogCall(log, outcome) ==
    IF outcome.kind \in FailureKinds
    THEN (IF log = "some_answer" THEN log ELSE "all_failed")
    ELSE "some_answer"

\* BouncerPolicy.reset
FreshPolicy(cons, s) ==
    /\ constraints' = cons
    /\ strategy' = s
    /\ slots_filled' = 0
    /\ rejections' = 0
    /\ slots_remaining' = VenueCapacity
    /\ recent_decisions' = <<>>

\* play_game up to its loop: /new-game, the initial strategy, the policy,
\* the first /decide-and-next; any exception there returns -1
StartGame ==
    /\ UNCHANGED <<cacheVars, sim, otherVars>>
    /\ pc = "start"
    /\ \E cons \in Scenarios, outcome \in AdvisorOutcomes,
          new_game_ok \in BOOLEAN, first_ok \in BOOLEAN,
          first \in FirstResponses :
        LET s == get_soulbios_strategy(outcome, fallback_strategy)
            called == new_game_ok
            raised == called /\ SetStrategyRaises(s)
            ok == new_game_ok /\ ~raised /\ first_ok
        IN  /\ IF new_game_ok /\ ~raised
               THEN FreshPolicy(cons, s)
               ELSE UNCHANGED <<constraints, strategy, slots_filled,
                                rejections, slots_remaining, recent_decisions>>
            /\ pc' = IF ok THEN "running" ELSE "failed"
            /\ result' = IF ok THEN NoResult ELSE FailedScore
            /\ response' = IF ok THEN first ELSE response
            /\ wire' = IF ok THEN Receive(wire, first) ELSE wire
            /\ advisor_log' = IF called THEN LogCall(advisor_log, outcome)
                              ELSE advisor_log
            /\ last' = [NoLast EXCEPT
                          !.op = "start",
                          !.reviews = IF called THEN 1 ELSE 0,
                          !.outcome = IF called THEN outcome ELSE NoOutcome,
                          !.cause = IF ok THEN "none"
                                    ELSE IF raised THEN "advisor" ELSE "server"]
            /\ cycles' = cycles

\* an emergency test that fires once for each window of 25 persons
emergency_triggered_once(person_index, recent) ==
    /\ person_index > EmergencyAfterPerson
    /\ person_index % STRATEGIC_REVIEW_INTERVAL # 0
    /\ person_index % recent_acceptance_window = 1
    /\ Len(recent) >= recent_acceptance_window
    /\ ZeroAcceptanceInWindow(recent, recent_acceptance_window)

\* an emergency test that starts at person 450, not after it
emergency_triggered_from(person_index, recent) ==
    /\ person_index >= EmergencyAfterPerson
    /\ person_index % STRATEGIC_REVIEW_INTERVAL # 0
    /\ Len(recent) >= recent_acceptance_window
    /\ ZeroAcceptanceInWindow(recent, recent_acceptance_window)

\* the emergency test of the loop
emergency_triggered(person_index, recent) ==
    /\ person_index > EmergencyAfterPerson
    /\ person_index % STRATEGIC_REVIEW_INTERVAL # 0
    /\ Len(recent) >= recent_acceptance_window
    /\ ZeroAcceptanceInWindow(recent, recent_acceptance_window)

\* whether the loop consults the advisor for this person
ReviewDue(person_index, recent) ==
    /\ person_index > 0
    /\ \/ person_index % STRATEGIC_REVIEW_INTERVAL = 0
       \/ emergency_triggered(person_index, recent)

\* the top of the loop when the response holds no next person
Finish ==
    /\ UNCHANGED <<cacheVars, sim, otherVars>>
    /\ pc = "running"
    /\ ~response.hasNext
    /\ pc' = IF final_score(response) = FailedScore
             THEN "failed" ELSE "completed"
    /\ result' = final_score(response)
    /\ last' = [NoLast EXCEPT
                  !.op = "finish",
                  !.cause = IF final_score(response) = FailedScore
                            THEN "server" ELSE "none"]
    /\ UNCHANGED <<constraints, strategy, slots_filled, rejections,
                   slots_remaining, recent_decisions, response, cycles,
                   advisor_log, wire>>

\* one iteration of the loop for the person the response holds: the review,
\* the decision, update_state, the submission and the status test
DecideAndNext ==
    /\ UNCHANGED <<cacheVars, sim, otherVars>>
    /\ pc = "running"
    /\ response.hasNext
    /\ cycles < MaxCycles
    /\ LET person_index == response.personIndex
           attrs == response.attributes
           review == ReviewDue(person_index, recent_decisions)
       IN \E outcome \in (IF review THEN AdvisorOutcomes ELSE {NoOutcome}),
             submit_ok \in BOOLEAN :
          LET s == IF review
                   THEN get_soulbios_strategy(outcome, strategy)
                   ELSE strategy
              review_raised == review /\ SetStrategyRaises(s)
              admit_raised == /\ ~review_raised
                              /\ ShouldAdmitRaises(s, constraints,
                                                   slots_remaining, attrs)
              raised == review_raised \/ admit_raised
              admit == /\ ~raised
                       /\ should_admit(s, constraints, slots_filled,
                                       slots_remaining, attrs)
              filled == IF admit THEN slots_filled + 1 ELSE slots_filled
              rejected == IF admit THEN rejections ELSE rejections + 1
              seen == [NoLast EXCEPT
                         !.op = "cycle", !.person_index = person_index,
                         !.attributes = attrs, !.cons = constraints,
                         !.slots = slots_remaining, !.filled = slots_filled,
                         !.recent = recent_decisions,
                         !.strategy_before = strategy,
                         !.reviews = IF review THEN 1 ELSE 0,
                         !.outcome = outcome,
                         !.streak = IF /\ review
                                       /\ person_index
                                            % STRATEGIC_REVIEW_INTERVAL # 0
                                    THEN last.streak + 1 ELSE 0,
                         !.rule = IF raised THEN "none"
                                  ELSE BranchTaken(s, constraints, slots_filled,
                                                   slots_remaining, attrs)]
          IN  /\ cycles' = cycles + 1
              /\ strategy' = s
              /\ advisor_log' = IF review THEN LogCall(advisor_log, outcome)
                                ELSE advisor_log
              /\ IF raised
                 THEN /\ pc' = "crashed"
                      /\ last' = [seen EXCEPT !.cause = "advisor"]
                      /\ UNCHANGED <<constraints, slots_filled, rejections,
                                     slots_remaining, recent_decisions,
                                     response, result, wire>>
                 ELSE /\ recent_decisions' =
                             AppendDecision(recent_decisions, admit)
                      /\ slots_filled' = filled
                      /\ rejections' = rejected
                      /\ constraints' = IF admit
                                        THEN _record_admission(constraints, attrs)
                                        ELSE constraints
                      /\ slots_remaining' = SlotsRemainingAfter(filled)
                      /\ IF ~submit_ok
                         THEN /\ pc' = "failed"
                              /\ result' = FailedScore
                              /\ response' = response
                              /\ wire' = Submit(wire, person_index, admit)
                              /\ last' = [seen EXCEPT !.decided = TRUE,
                                            !.admit = admit,
                                            !.cause = "server"]
                         ELSE \E reply \in ServerReplies(person_index, rejected) :
                              /\ response' = reply
                              /\ wire' = IF StatusTestRaises(reply)
                                         THEN Submit(wire, person_index, admit)
                                         ELSE Receive(Submit(wire, person_index,
                                                             admit), reply)
                              /\ pc' = CASE StatusTestRaises(reply) -> "crashed"
                                         [] reply.status = "completed" -> "completed"
                                         [] reply.status = "failed" -> "failed"
                                         [] OTHER -> "running"
                              /\ result' =
                                    CASE StatusTestRaises(reply) -> NoResult
                                      [] reply.status = "completed" -> reply.rejectedCount
                                      [] reply.status = "failed" -> FailedScore
                                      [] OTHER -> NoResult
                              /\ last' = [seen EXCEPT !.decided = TRUE,
                                            !.admit = admit,
                                            !.cause = IF \/ StatusTestRaises(reply)
                                                         \/ reply.status = "failed"
                                                      THEN "server" ELSE "none"]

-----------------------------------------------------------------------------
(* The session at its construction *)

InitFresh ==
    /\ pc = "start"
    /\ constraints = <<>>
    /\ strategy = fallback_strategy
    /\ slots_filled = 0
    /\ rejections = 0
    /\ slots_remaining = VenueCapacity
    /\ recent_decisions = <<>>
    /\ response = NoPerson
    /\ result = NoResult
    /\ cycles = 0
    /\ advisor_log = "none"
    /\ last = NoLast
    /\ wire = NoWire

(* Sessions under way.  A whole session is more than a thousand iterations  *)
(* long, so the model also starts from states that play_game reaches at    *)
(* the top of its loop after the prefixes named here (each replayed on the *)
(* source; Y is a person who is young only, W one who is well dressed      *)
(* only, N one who is neither):                                            *)
(*   young >= 600, every advisor call failing, Y x 99 / 449 / 450 / 498:   *)
(*     the fallback strategy admits the first 61 and rejects the rest;     *)
(*   young >= 600 and well_dressed >= 500, the advisor answering the       *)
(*   permissive CombinedValue strategy at every call:                      *)
(*     N, W x 398   (398 admitted, person 399 is next);                    *)
(*     W x 400      (400 admitted: young needs 600 of the 600 slots left); *)
(*     W x 500, Y x 498   (998 admitted, the Y by panic mode).             *)

Repeat(x, n) == [i \in 1..n |-> x]

PermissiveCombined ==
    Dict(RequiredKeys, {}, "CombinedValue", 300, 55, 35, 0, 10)

Checkpoint(cons, s, filled, rejected, recent, log) ==
    [cons |-> cons, strategy |-> s, filled |-> filled, rejected |-> rejected,
     recent |-> recent, log |-> log]

Admitted(y, w) == [young |-> [target |-> 600, admitted |-> y],
                   well_dressed |-> [target |-> 500, admitted |-> w]]

Checkpoints ==
    { Checkpoint([young |-> [target |-> 600, admitted |-> 61]],
                 fallback_strategy, 61, n - 61,
                 Repeat(FALSE, recent_acceptance_window), "all_failed")
        : n \in {99, 449, 450, 498} }
    \cup
    { Checkpoint(Admitted(0, 398), PermissiveCombined, 398, 1,
                 Repeat(TRUE, recent_acceptance_window), "some_answer"),
      Checkpoint(Admitted(0, 400), PermissiveCombined, 400, 0,
                 Repeat(TRUE, recent_acceptance_window), "some_answer"),
      Checkpoint(Admitted(498, 500), PermissiveCombined, 998, 0,
                 Repeat(TRUE, recent_acceptance_window), "some_answer") }

InitUnderWay ==
    \E c \in Checkpoints, attrs \in SUBSET PersonAttrs :
        /\ pc = "running"
        /\ constraints = c.cons
        /\ strategy = c.strategy
        /\ slots_filled = c.filled
        /\ rejections = c.rejected
        /\ slots_remaining = VenueCapacity - c.filled
        /\ recent_decisions = c.recent
        /\ response = NextPerson(c.filled + c.rejected, attrs)
        /\ result = NoResult
        /\ cycles = 0
        /\ advisor_log = c.log
        /\ last = NoLast
        /\ wire = Receive(NoWire, NextPerson(c.filled + c.rejected, attrs))

-----------------------------------------------------------------------------
(* StrategyCache (infrastructure/strategy_cache.py)                        *)
(*                                                                         *)
(* A game state is the dict _extract_game_state_for_cache builds.  Times   *)
(* are minutes.  A similarity is held in units of 1 / SimOne, the common   *)
(* denominator of the three terms for at most two attributes, so the sums  *)
(* and comparisons of the source are exact.  The game states of the model  *)
(* are chosen off the one place found where the float sum and the exact    *)
(* sum fall on different sides of 0.85 (persons 33 apart, accepted counts  *)
(* 3 apart).  The md5 of the normalised state is held as the normalised    *)
(* state itself.                                                           *)

default_max_cache_size == 1000
similarity_threshold_percent == 85
max_age_minutes == 30
PersonSpan == 100
AcceptSpan == 50
ConstraintSpan == 200

(* Bounds of the model *)
MaxCacheOps == 2
MaxNow == 30

Con(attr, minCount, admitted) ==
    [attribute |-> attr, minCount |-> minCount, admitted |-> admitted]

GS(person, accepted, cons, freq) ==
    [current_person |-> person, accepted_count |-> accepted,
     constraints |-> cons, observedFrequencies |-> freq]

\* the order of Python's sorted() on the (attribute, minCount, admitted) tuples
AttrRank(attr) == IF attr = "well_dressed" THEN 1 ELSE 2

TupleLess(c, d) ==
    \/ AttrRank(c.attribute) < AttrRank(d.attribute)
    \/ /\ c.attribute = d.attribute
       /\ \/ c.minCount < d.minCount
          \/ c.minCount = d.minCount /\ c.admitted < d.admitted

RECURSIVE InsertSorted(_, _)
InsertSorted(c, sorted) ==
    IF sorted = <<>> THEN <<c>>
    ELSE IF TupleLess(c, Head(sorted)) THEN <<c>> \o sorted
    ELSE <<Head(sorted)>> \o InsertSorted(c, Tail(sorted))

RECURSIVE SortTuples(_)
SortTuples(cons) ==
    IF cons = <<>> THEN <<>>
    ELSE InsertSorted(Head(cons), SortTuples(Tail(cons)))

\* a fingerprint that keeps the constraints in the order given
_calculate_game_state_hash_unsorted(gs) ==
    [person |-> gs.current_person, accepted |-> gs.accepted_count,
     constraints |-> gs.constraints,
     frequencies |-> gs.observedFrequencies]

_calculate_game_state_hash(gs) ==
    [person |-> gs.current_person, accepted |-> gs.accepted_count,
     constraints |-> SortTuples(gs.constraints),
     frequencies |-> gs.observedFrequencies]

Abs(x) == IF x < 0 THEN -x ELSE x

\* the difference without the clamp at 0
Max0_unclamped(x) == x

\* max(0, x)
Max0(x) == IF x < 0 THEN 0 ELSE x

\* the dict {attribute: minCount} of a state: a later entry overrides
RECURSIVE MinCountOf(_, _)
MinCountOf(cons, attr) ==
    IF cons = <<>> THEN 0
    ELSE IF cons[Len(cons)].attribute = attr THEN cons[Len(cons)].minCount
    ELSE MinCountOf(SubSeq(cons, 1, Len(cons) - 1), attr)

AttrsOf(cons) == {cons[i].attribute : i \in 1..Len(cons)}

SimAttrs == {"young", "well_dressed"}

SimOne == 1000 * ConstraintSpan * ConstraintSpan

\* constraint_similarity, in units of 1 / ConstraintSpan^2
RECURSIVE ConstraintProduct(_, _, _)
ConstraintProduct(c1, c2, attrs) ==
    IF attrs = {} THEN 1
    ELSE LET a == CHOOSE x \in attrs : TRUE
             diff == Abs(MinCountOf(c1, a) - MinCountOf(c2, a))
         IN  Max0(ConstraintSpan - diff) * ConstraintProduct(c1, c2, attrs \ {a})

RECURSIVE Power(_, _)
Power(b, n) == IF n = 0 THEN 1 ELSE b * Power(b, n - 1)

_calculate_similarity(state1, state2) ==
    LET person_diff == Abs(state1.current_person - state2.current_person)
        person_similarity == Max0(PersonSpan - person_diff)
        accept_diff == Abs(state1.accepted_count - state2.accepted_count)
        accept_similarity == Max0(AcceptSpan - accept_diff)
        attrs == AttrsOf(state1.constraints) \cup AttrsOf(state2.constraints)
        unused == Power(ConstraintSpan, Cardinality(SimAttrs \ attrs))
        constraint_similarity ==
            ConstraintProduct(state1.constraints, state2.constraints, attrs)
            * unused
    IN  person_similarity * 4 * (SimOne \div (10 * PersonSpan))
        + accept_similarity * 3 * (SimOne \div (10 * AcceptSpan))
        + constraint_similarity * 3 * (SimOne \div (10 * ConstraintSpan * ConstraintSpan))

\* similarity >= self.similarity_threshold
ReachesThreshold(similarity) ==
    similarity >= similarity_threshold_percent * (SimOne \div 100)

-----------------------------------------------------------------------------
(* The entries and the operations of the cache *)

NoMeta == [match_type |-> "none", similarity_score |-> 0,
           served_from_cache |-> FALSE]

\* CachedStrategy; "meta" is what a hit writes into the _cache_metadata dict,
\* which the stored strategy and every copy returned share
Entry(hash, strat, gs, t) ==
    [game_state_hash |-> hash,
     strategy |-> [strat EXCEPT !.keys = @ \cup {"_cache_metadata"}],
     original_game_state |-> gs,
     timestamp |-> t, hit_count |-> 0, meta |-> NoMeta]

\* the strategy without the key the cache adds to its copy
StrategyParams(strat) == [strat EXCEPT !.keys = @ \ {"_cache_metadata"}]

\* the fingerprint of two game states is the same: person, accepted count,
\* the (attribute, minCount, admitted) tuples in any order, the frequencies
Occurrences(cons, c) == Cardinality({i \in 1..Len(cons) : cons[i] = c})

SameFingerprint(a, b) ==
    /\ a.current_person = b.current_person
    /\ a.accepted_count = b.accepted_count
    /\ a.observedFrequencies = b.observedFrequencies
    /\ Len(a.constraints) = Len(b.constraints)
    /\ \A i \in 1..Len(a.constraints) :
          Occurrences(a.constraints, a.constraints[i])
              = Occurrences(b.constraints, a.constraints[i])

\* the record of which strategy cache_strategy was last given for a fingerprint
PayloadsAfterStore(ps, gs, strat) ==
    {r \in ps : ~SameFingerprint(r.game_state, gs)}
        \cup {[game_state |-> gs, strategy |-> strat]}

\* a validity test that still accepts an entry of exactly max_age_minutes
_is_cache_valid_inclusive(entry, t) == t - entry.timestamp <= max_age_minutes

_is_cache_valid(entry, t) == t - entry.timestamp < max_age_minutes

IndexOf(c, hash) ==
    IF \E i \in 1..Len(c) : c[i].game_state_hash = hash
    THEN CHOOSE i \in 1..Len(c) : c[i].game_state_hash = hash
    ELSE 0

NoMatch == [index |-> 0, match_type |-> "miss", similarity |-> 0]

\* the loop over self.cache.items(): the first, in insertion order, of the
\* valid entries of greatest similarity, if that reaches the threshold
RECURSIVE SimilarityLoop(_, _, _, _, _)
\* a loop that keeps the first valid entry that reaches the threshold
RECURSIVE SimilarityLoop_first_match(_, _, _, _, _)
SimilarityLoop_first_match(c, gs, t, i, best) ==
    IF i > Len(c) \/ best.index # 0 THEN best
    ELSE IF ~_is_cache_valid(c[i], t)
    THEN SimilarityLoop_first_match(c, gs, t, i + 1, best)
    ELSE LET similarity ==
                 _calculate_similarity(gs, c[i].original_game_state)
         IN  IF ReachesThreshold(similarity)
             THEN [index |-> i, match_type |-> "similarity_match",
                   similarity |-> similarity]
             ELSE SimilarityLoop_first_match(c, gs, t, i + 1, best)

SimilarityLoop(c, gs, t, i, best) ==
    IF i > Len(c) THEN best
    ELSE IF ~_is_cache_valid(c[i], t) THEN SimilarityLoop(c, gs, t, i + 1, best)
    ELSE LET similarity ==
                 _calculate_similarity(gs, c[i].original_game_state)
         IN  IF similarity > best.similarity /\ ReachesThreshold(similarity)
             THEN SimilarityLoop(c, gs, t, i + 1,
                      [index |-> i, match_type |-> "similarity_match",
                       similarity |-> similarity])
             ELSE SimilarityLoop(c, gs, t, i + 1, best)

\* get_cached_strategy: the entry it hits (index 0 for a miss), how, and
\* the similarity it reports
get_cached_strategy(c, gs, t) ==
    LET i == IndexOf(c, _calculate_game_state_hash(gs))
    IN  IF i # 0 /\ _is_cache_valid(c[i], t)
        THEN [index |-> i, match_type |-> "exact_match", similarity |-> SimOne]
        ELSE SimilarityLoop(c, gs, t, 1, NoMatch)

\* the cache after get_cached_strategy: hit_count and the shared metadata
CacheAfterLookup(c, found) ==
    IF found.index = 0 THEN c
    ELSE [c EXCEPT ![found.index].hit_count = @ + 1,
                   ![found.index].meta =
                       [match_type |-> found.match_type,
                        similarity_score |-> found.similarity,
                        served_from_cache |-> TRUE]]

StatsAfterLookup(st, hit) ==
    [st EXCEPT !.total_requests = @ + 1,
               !.hits = IF hit THEN @ + 1 ELSE @,
               !.misses = IF hit THEN @ ELSE @ + 1]

\* the sort key of _evict_oldest_entries; sorted() is stable
EvictBefore(c, i, j) ==
    \/ c[i].timestamp < c[j].timestamp
    \/ /\ c[i].timestamp = c[j].timestamp
       /\ \/ c[i].hit_count < c[j].hit_count
          \/ c[i].hit_count = c[j].hit_count /\ i < j

\* an eviction that rounds the 20% up
entries_to_remove_rounded_up(c) == (Len(c) * 2 + 9) \div 10

entries_to_remove(c) == (Len(c) * 2) \div 10

Evicted(c) ==
    {i \in 1..Len(c) :
        Cardinality({j \in 1..Len(c) : EvictBefore(c, j, i)})
            < entries_to_remove(c)}

RECURSIVE Without(_, _)
Without(c, drop) ==
    IF c = <<>> THEN <<>>
    ELSE LET rest == Without(SubSeq(c, 1, Len(c) - 1), drop)
         IN  IF Len(c) \in drop THEN rest ELSE Append(rest, c[Len(c)])

_evict_oldest_entries(c) == Without(c, Evicted(c))

CacheIsFull(c, max) == Len(c) >= max

\* self.cache[game_state_hash] = cached_strategy
Assign(c, entry) ==
    LET i == IndexOf(c, entry.game_state_hash)
    IN  IF i # 0 THEN [c EXCEPT ![i] = entry] ELSE Append(c, entry)

\* the cache after cache_strategy
CacheAfterStore(c, max, gs, strat, t) ==
    LET kept == IF CacheIsFull(c, max) THEN _evict_oldest_entries(c) ELSE c
    IN  Assign(kept, Entry(_calculate_game_state_hash(gs), strat, gs, t))

\* round(n / d, 0) for n >= 0 and d > 0: to the nearest integer, a tie to the
\* even one
RoundHalfEven(n, d) ==
    LET q == n \div d
        r == n % d
    IN  IF 2 * r < d THEN q
        ELSE IF 2 * r > d THEN q + 1
        ELSE IF q % 2 = 0 THEN q ELSE q + 1

HundredthsOfPercent == 100 * 100

\* a report that cuts the hit rate off after two decimals
get_cache_stats_truncated(st) ==
    [hits |-> st.hits, misses |-> st.misses,
     total_requests |-> st.total_requests, cache_size |-> st.cache_size,
     hit_rate_percent |->
         (HundredthsOfPercent * st.hits)
             \div (IF st.total_requests < 1 THEN 1 ELSE st.total_requests)]

\* get_cache_stats: the counters and round(hit_rate, 2), held in hundredths
get_cache_stats(st) ==
    [hits |-> st.hits, misses |-> st.misses,
     total_requests |-> st.total_requests, cache_size |-> st.cache_size,
     hit_rate_percent |->
         RoundHalfEven(HundredthsOfPercent * st.hits,
                       IF st.total_requests < 1 THEN 1 ELSE st.total_requests)]

EmptyStats == [hits |-> 0, misses |-> 0, total_requests |-> 0, cache_size |-> 0]

\* GameTheoryAgent._default_strategy
_default_strategy ==
    Dict(StrategyKeys \cup {"fallback_reason"}, {}, "Hybrid", 400, 55, 40, 45, 10)

\* GameTheoryAgent._validate_strategy
_validate_strategy(s) == IF SchemaValid(s) THEN s ELSE _default_strategy

-----------------------------------------------------------------------------
(* The game states, strategies and clock of the cache model *)

YoungWell == <<Con("young", 600, 0), Con("well_dressed", 500, 0)>>
WellYoung == <<Con("well_dressed", 500, 0), Con("young", 600, 0)>>

Freq(y, w) == [young |-> y, well_dressed |-> w]

FirstState == GS(1, 0, YoungWell, Freq(32, 32))
FarState == GS(121, 120, <<Con("young", 300, 10)>>, Freq(32, 32))

CacheGameStates ==
    { FirstState,
      GS(1, 0, WellYoung, Freq(32, 32)),    \* the fingerprint of FirstState
      GS(3, 2, YoungWell, Freq(32, 32)),    \* similarity 0.98 to FirstState
      GS(5, 4, YoungWell, Freq(32, 32)),    \* 0.96 to FirstState, 0.98 to (3, 2)
      FarState }

\* what phases 2 and 3 of _process_agent_logic hand to the validation: the
\* game-theory strategy (its numbers vary with the game state; the cache
\* does not read them, so one stands for all), or the JSON object the model
\* answered
GameTheoryStrategy == Dict(RequiredKeys, {}, "Hybrid", 400, 55, 35, 45, 10)

ModelAnswers ==
    { \* schema-invalid: late_game_params is missing
      Dict(RequiredKeys \ {"late_game_params", "base_threshold",
                           "buffer_percent"}, {}, "Hybrid", 400, 55, 35, 0, 0) }

StoredStrategies ==
    { GameTheoryStrategy,
      Dict(RequiredKeys, {}, "CombinedValue", 300, 55, 35, 0, 10) }

ClockSteps == {15}

NoGameState == GS(0, 0, <<>>, Freq(0, 0))

\* what get_cache_stats returned; the hit rate in hundredths of a percent
NoReport == [hits |-> 0, misses |-> 0, total_requests |-> 0, cache_size |-> 0,
             hit_rate_percent |-> 0]

NoCacheLast ==
    [op |-> "none", game_state |-> NoGameState, cache_before |-> <<>>,
     now |-> 0, hit |-> FALSE, index |-> 0, returned |-> NonDict("none"),
     raw |-> NonDict("none"), model_called |-> FALSE, stored |-> FALSE,
     stats_before |-> EmptyStats, report |-> NoReport]

\* get_cached_strategy(game_state)
Lookup ==
    /\ cache_ops < MaxCacheOps
    /\ \E gs \in CacheGameStates :
        LET found == get_cached_strategy(cache, gs, now)
            i == found.index
        IN  /\ cache' = CacheAfterLookup(cache, found)
            /\ stats' = StatsAfterLookup(stats, i # 0)
            /\ clast' = [NoCacheLast EXCEPT
                           !.op = "lookup", !.game_state = gs,
                           !.cache_before = cache, !.now = now,
                           !.stats_before = stats,
                           !.hit = (i # 0), !.index = i,
                           !.returned = IF i # 0 THEN cache[i].strategy
                                        ELSE NonDict("none")]
    /\ cache_ops' = cache_ops + 1
    /\ UNCHANGED <<max_cache_size, now, payloads, playerVars, sim, otherVars>>

\* cache_strategy(game_state, strategy)
Store ==
    /\ cache_ops < MaxCacheOps
    /\ \E gs \in CacheGameStates, strat \in StoredStrategies :
        /\ cache' = CacheAfterStore(cache, max_cache_size, gs, strat, now)
        /\ stats' = [stats EXCEPT !.cache_size = Len(cache')]
        /\ clast' = [NoCacheLast EXCEPT
                       !.op = "store", !.game_state = gs,
                       !.cache_before = cache, !.now = now,
                       !.stats_before = stats,
                       !.raw = strat, !.stored = TRUE]
        /\ payloads' = PayloadsAfterStore(payloads, gs, strat)
    /\ cache_ops' = cache_ops + 1
    /\ UNCHANGED <<max_cache_size, now, playerVars, sim, otherVars>>

\* GameTheoryAgent._process_agent_logic with enable_cache: the cache check,
\* and on a miss the strategy of phases 2 and 3, validated and cached
ProviderRequest ==
    /\ cache_ops < MaxCacheOps
    /\ \E gs \in CacheGameStates,
          raw \in {GameTheoryStrategy} \cup ModelAnswers :
        LET found == get_cached_strategy(cache, gs, now)
            i == found.index
            looked == CacheAfterLookup(cache, found)
            valid == _validate_strategy(raw)
            llm == raw \in ModelAnswers
        IN  /\ cache' = IF i # 0 THEN looked
                        ELSE CacheAfterStore(looked, max_cache_size, gs,
                                             valid, now)
            /\ stats' = IF i # 0 THEN StatsAfterLookup(stats, TRUE)
                        ELSE [StatsAfterLookup(stats, FALSE)
                                 EXCEPT !.cache_size = Len(cache')]
            /\ clast' = [NoCacheLast EXCEPT
                           !.op = "provider", !.game_state = gs,
                           !.cache_before = cache, !.now = now,
                           !.stats_before = stats,
                           !.hit = (i # 0), !.index = i,
                           !.returned = IF i # 0 THEN cache[i].strategy
                                        ELSE valid,
                           !.raw = IF i # 0 THEN NonDict("none") ELSE raw,
                           !.model_called = (i = 0 /\ llm),
                           !.stored = (i = 0)]
            /\ payloads' = IF i # 0 THEN payloads
                           ELSE PayloadsAfterStore(payloads, gs, valid)
    /\ cache_ops' = cache_ops + 1
    /\ UNCHANGED <<max_cache_size, now, playerVars, sim, otherVars>>

\* clear_cache()
ClearCache ==
    /\ cache_ops < MaxCacheOps
    /\ cache # <<>>
    /\ cache' = <<>>
    /\ stats' = EmptyStats
    /\ clast' = [NoCacheLast EXCEPT !.op = "clear", !.cache_before = cache,
                                    !.now = now, !.stats_before = stats]
    /\ cache_ops' = cache_ops + 1
    /\ UNCHANGED <<max_cache_size, now, payloads, playerVars, sim, otherVars>>

\* get_cache_stats()
GetCacheStats ==
    /\ clast.op # "stats"
    /\ clast' = [NoCacheLast EXCEPT !.op = "stats", !.cache_before = cache,
                                    !.now = now, !.stats_before = stats,
                                    !.report = get_cache_stats(stats)]
    /\ UNCHANGED <<cache, stats, max_cache_size, now, cache_ops, payloads,
                   playerVars, sim, otherVars>>

\* time passes between two operations
Tick ==
    /\ \E d \in ClockSteps :
        /\ now + d <= MaxNow
        /\ now' = now + d
    /\ UNCHANGED <<cache, stats, max_cache_size, cache_ops, clast, payloads,
                   playerVars, sim, otherVars>>

-----------------------------------------------------------------------------
(* _calculate_similarity as an operation of its own *)

SimPersons == {0, 1, 60, 101, 300}
SimAccepted == {0, 20, 50, 80}
SimConstraints ==
    { <<>>,
      <<Con("young", 600, 0)>>,
      <<Con("young", 300, 10)>>,
      <<Con("young", 600, 200)>>,
      <<Con("well_dressed", 900, 0)>>,
      YoungWell,
      <<Con("young", 600, 0), Con("young", 100, 0)>> }

SimGameStates ==
    { GS(p, a, c, Freq(32, 32)) :
        p \in SimPersons, a \in SimAccepted, c \in SimConstraints }

NotCalculated == -1

NoSim == [state1 |-> NoGameState, state2 |-> NoGameState,
          value |-> NotCalculated]

CalculateSimilarity ==
    /\ sim.value = NotCalculated
    /\ sim' = [sim EXCEPT !.value = _calculate_similarity(sim.state1, sim.state2)]
    /\ UNCHANGED <<playerVars, cacheVars, otherVars>>

-----------------------------------------------------------------------------
(* The specifications *)

-----------------------------------------------------------------------------
(* The batch: the scenario loop of __main__                                *)

\* args.scenarios: the default list, lists in another order, with a
\* scenario twice, and of one scenario
ScenarioLists == {<<1, 2, 3>>, <<3, 1>>, <<2, 2, 1>>, <<1>>}

\* what a call of play_game comes to: the server's rejectedCount, -1, or an
\* exception (the value Raised stands for it)
Raised == -4
BatchScores == {0, 716, 1345}
PlayGameOutcomes == BatchScores \cup {FailedScore, Raised}

NoBatch ==
    [phase |-> "idle", scenarios |-> <<>>, pos |-> 0, total_rejections |-> 0,
     results |-> <<>>, started |-> <<>>, scores |-> <<>>, printed |-> <<>>,
     printed_total |-> NoResult]

\* results[f"Scenario {scenario}"] = score: a dict in insertion order, a
\* second score of the same scenario replaces the first in place
SetResult(results, scenario, score) ==
    IF \E i \in 1..Len(results) : results[i].scenario = scenario
    THEN [i \in 1..Len(results) |->
             IF results[i].scenario = scenario
             THEN [scenario |-> scenario, score |-> score]
             ELSE results[i]]
    ELSE Append(results, [scenario |-> scenario, score |-> score])

\* a loop that adds every score to the total, the -1 of a failure too
total_after_all(total, score) == total + score

\* total_rejections after one scenario
total_after(total, score) ==
    IF score # FailedScore THEN total + score ELSE total

\* one pass of the for loop: play_game for the next scenario of the list
PlayScenario ==
    /\ batch.phase = "loop"
    /\ batch.pos <= Len(batch.scenarios)
    /\ \E score \in PlayGameOutcomes :
        LET scenario == batch.scenarios[batch.pos]
            begun == [batch EXCEPT !.started = Append(@, scenario),
                                   !.scores = Append(@, score)]
        IN  batch' =
              IF score = Raised
              THEN [begun EXCEPT !.phase = "crashed"]
              ELSE [begun EXCEPT
                      !.results = SetResult(@, scenario, score),
                      !.total_rejections = total_after(@, score),
                      !.pos = @ + 1,
                      !.phase = IF score = FailedScore THEN "break" ELSE "loop"]
    /\ UNCHANGED <<playerVars, cacheVars, sim, concVars>>

\* after the loop (the list is exhausted, or break): the results and the
\* total are printed
PrintResults ==
    /\ \/ batch.phase = "break"
       \/ batch.phase = "loop" /\ batch.pos > Len(batch.scenarios)
    /\ batch' = [batch EXCEPT !.phase = "printed",
                              !.printed = batch.results,
                              !.printed_total = batch.total_rejections]
    /\ UNCHANGED <<playerVars, cacheVars, sim, concVars>>

-----------------------------------------------------------------------------
(* Provider requests of several game sessions on the one StrategyCache.    *)
(*                                                                         *)
(* strategy_cache is a module-level object that only                       *)
(* GameTheoryAgent._process_agent_logic uses.  That is a coroutine: the    *)
(* requests of the sessions are interleaved by the asyncio event loop of   *)
(* the API process, which runs one coroutine at a time and changes to      *)
(* another only where the running one awaits.  get_cached_strategy and     *)
(* cache_strategy contain no await; between them _process_agent_logic      *)
(* awaits the model (generate_content_async) when it asks it.  StrategyCache *)
(* itself takes no lock.  The methods are modelled in the steps at which   *)
(* another thread of control could see or change the cache if it ran.      *)

Sessions == {1, 2}

(* Bound of the model: the requests one session makes *)
MaxRequests == 1

\* max_cache_size in this specification: the smallest size of which one
\* eviction round frees more than the one slot the insertion takes
ConcCacheSize == 10

\* the game states cached at the start: 100 persons apart, so that none is
\* similar to another
ConcCached ==
    [i \in 1..ConcCacheSize |->
        GS(100 * i + 1, 50 * i, <<Con("young", 600, 50 * i)>>, Freq(32, 32))]

\* a game state that is not cached, one per session
ConcNew(s) ==
    GS(100 * (ConcCacheSize + s) + 1, 600, <<Con("young", 600, 600)>>,
       Freq(32, 32))

\* the game states a session asks a strategy for: the oldest and the
\* newest cached one, and its own new one
SessionStates(s) == {ConcCached[1], ConcCached[ConcCacheSize], ConcNew(s)}

\* the cache after ConcCacheSize cache_strategy calls, a minute apart
ConcCache ==
    [i \in 1..ConcCacheSize |->
        Entry(_calculate_game_state_hash(ConcCached[i]), GameTheoryStrategy,
              ConcCached[i], i - 1)]

NoKey == _calculate_game_state_hash(NoGameState)

NoTask ==
    [pc |-> "idle", game_state |-> NoGameState, found |-> NoMatch,
     key |-> NoKey, hit_count |-> 0, victims |-> <<>>, next |-> 0,
     len_at_check |-> 0, requests |-> 0, last_hit |-> NoKey,
     last_stored |-> NoKey]

NoConcLog ==
    [store_calls |-> 0, evict_rounds |-> 0, stores |-> 0, key_errors |-> 0,
     overlapped |-> FALSE, saw_partial |-> FALSE, removed_wrong |-> FALSE,
     hits_seen |-> {}]

\* threads: any request may run at any time
CanRun_threads(s) == TRUE

\* the event loop runs s: it runs nothing else
CanRun(s) == loop_owner \in {0, s}

\* a lookup that awaits between reading and writing hit_count
AwaitPoints_in_lookup == {"model_call", "write_hit"}

\* where _process_agent_logic awaits between its cache calls
AwaitPoints == {"model_call"}

\* the coroutine the event loop runs after s made a step to pc
OwnerAfter(s, pc_after) ==
    IF pc_after \in AwaitPoints \cup {"idle"} THEN 0 ELSE s

\* the request is over: the locals are gone
Returned(t) ==
    [NoTask EXCEPT !.requests = t.requests + 1, !.last_hit = t.last_hit,
                   !.last_stored = t.last_stored]

\* how often the entry of this fingerprint has been hit since it was stored
HitsSeen(log, key) ==
    Cardinality({h \in log.hits_seen : h.key = key})

\* another request has started and not returned
InFlight(s) == \E t \in Sessions \ {s} : tasks[t].pc # "idle"

\* another request is in the middle of its eviction loop
PartlyEvicted(s) ==
    \E t \in Sessions \ {s} : tasks[t].pc = "evict" /\ tasks[t].next > 1

\* sorted_entries[:entries_to_remove], as the keys deleted in turn
RankOf(c, i) == Cardinality({j \in 1..Len(c) : EvictBefore(c, j, i)})

sorted_entries(c) ==
    [k \in 1..entries_to_remove(c) |->
        c[CHOOSE i \in 1..Len(c) : RankOf(c, i) = k - 1].game_state_hash]

\* del self.cache[cache_hash]
Delete(c, key) == Without(c, {IndexOf(c, key)})

\* the request starts; get_cached_strategy up to the entry it finds
FindEntry(s) ==
    /\ tasks[s].pc = "idle"
    /\ tasks[s].requests < MaxRequests
    /\ CanRun(s)
    /\ \E gs \in SessionStates(s) :
        LET found == get_cached_strategy(cache, gs, now)
            hit == found.index # 0
            pc_after == IF hit THEN "read_hit" ELSE "computing"
        IN  /\ tasks' = [tasks EXCEPT ![s] =
                    [@ EXCEPT !.pc = pc_after, !.game_state = gs,
                              !.found = [found EXCEPT !.index = 0],
                              !.key = IF hit
                                      THEN cache[found.index].game_state_hash
                                      ELSE NoKey]]
            /\ stats' = IF hit THEN stats ELSE StatsAfterLookup(stats, FALSE)
            /\ loop_owner' = OwnerAfter(s, pc_after)
    /\ conc_log' = [conc_log EXCEPT
                      !.saw_partial = @ \/ PartlyEvicted(s),
                      !.overlapped = @ \/ InFlight(s)]
    /\ UNCHANGED <<cache, max_cache_size, now, cache_ops, clast, payloads,
                   playerVars, sim, batch>>

\* cached.hit_count += 1: the read
ReadHitCount(s) ==
    /\ tasks[s].pc = "read_hit"
    /\ CanRun(s)
    /\ LET i == IndexOf(cache, tasks[s].key)
       IN  tasks' = [tasks EXCEPT ![s] =
               [@ EXCEPT !.pc = "write_hit",
                         !.hit_count = IF i # 0 THEN cache[i].hit_count
                                       ELSE 0]]
    /\ loop_owner' = OwnerAfter(s, "write_hit")
    /\ UNCHANGED <<cacheVars, playerVars, sim, batch, conc_log>>

\* cached.hit_count += 1: the write; then the stats, _add_cache_metadata and
\* the return of the cached strategy
WriteHitCount(s) ==
    /\ tasks[s].pc = "write_hit"
    /\ CanRun(s)
    /\ LET i == IndexOf(cache, tasks[s].key)
       IN  cache' = IF i = 0 THEN cache
                    ELSE [cache EXCEPT
                            ![i].hit_count = tasks[s].hit_count + 1,
                            ![i].meta =
                               [match_type |-> tasks[s].found.match_type,
                                similarity_score |-> tasks[s].found.similarity,
                                served_from_cache |-> TRUE]]
    /\ stats' = StatsAfterLookup(stats, TRUE)
    /\ conc_log' = [conc_log EXCEPT
                      !.hits_seen = @ \cup {[key |-> tasks[s].key,
                                             session |-> s,
                                             request |-> tasks[s].requests]}]
    /\ tasks' = [tasks EXCEPT ![s] =
                    [Returned(@) EXCEPT !.last_hit = tasks[s].key]]
    /\ loop_owner' = OwnerAfter(s, "idle")
    /\ UNCHANGED <<max_cache_size, now, cache_ops, clast, payloads,
                   playerVars, sim, batch>>

\* after a miss: the strategy is calculated, and the model is asked or not
Calculate(s) ==
    /\ tasks[s].pc = "computing"
    /\ CanRun(s)
    /\ \E pc_after \in {"model_call", "check_full"} :
        /\ tasks' = [tasks EXCEPT ![s].pc = pc_after]
        /\ loop_owner' = OwnerAfter(s, pc_after)
    /\ UNCHANGED <<cacheVars, playerVars, sim, batch, conc_log>>

\* the model has answered and the event loop resumes the request
ModelAnswered(s) ==
    /\ tasks[s].pc = "model_call"
    /\ CanRun(s)
    /\ tasks' = [tasks EXCEPT ![s].pc = "check_full"]
    /\ loop_owner' = OwnerAfter(s, "check_full")
    /\ UNCHANGED <<cacheVars, playerVars, sim, batch, conc_log>>

\* cache_strategy: if len(self.cache) >= self.max_cache_size
CheckFull(s) ==
    /\ tasks[s].pc = "check_full"
    /\ CanRun(s)
    /\ LET pc_after == IF CacheIsFull(cache, max_cache_size)
                       THEN "sort" ELSE "insert"
       IN  /\ tasks' = [tasks EXCEPT ![s] =
                   [@ EXCEPT !.pc = pc_after, !.len_at_check = Len(cache)]]
           /\ loop_owner' = OwnerAfter(s, pc_after)
    /\ conc_log' = [conc_log EXCEPT !.store_calls = @ + 1]
    /\ UNCHANGED <<cacheVars, playerVars, sim, batch>>

\* _evict_oldest_entries: sorted_entries and entries_to_remove
SortEntries(s) ==
    /\ tasks[s].pc = "sort"
    /\ CanRun(s)
    /\ LET victims == sorted_entries(cache)
           pc_after == IF victims = <<>> THEN "insert" ELSE "evict"
       IN  /\ tasks' = [tasks EXCEPT ![s] =
                   [@ EXCEPT !.pc = pc_after, !.victims = victims,
                             !.next = 1]]
           /\ loop_owner' = OwnerAfter(s, pc_after)
    /\ conc_log' = [conc_log EXCEPT !.evict_rounds = @ + 1]
    /\ UNCHANGED <<cacheVars, playerVars, sim, batch>>

\* _evict_oldest_entries: one del self.cache[cache_hash]; a key that is no
\* longer there raises KeyError, which cache_strategy catches and logs: the
\* new entry is then not stored
DeleteEntry(s) ==
    /\ tasks[s].pc = "evict"
    /\ CanRun(s)
    /\ LET key == tasks[s].victims[tasks[s].next]
           there == IndexOf(cache, key) # 0
           last_one == tasks[s].next = Len(tasks[s].victims)
           pc_after == IF ~there THEN "idle"
                       ELSE IF last_one THEN "insert" ELSE "evict"
       IN  /\ cache' = IF there THEN Delete(cache, key) ELSE cache
           /\ tasks' = [tasks EXCEPT ![s] =
                   IF ~there THEN Returned(@)
                   ELSE [@ EXCEPT !.pc = pc_after, !.next = @ + 1]]
           /\ conc_log' = [conc_log EXCEPT
                             !.key_errors = IF there THEN @ ELSE @ + 1]
           /\ loop_owner' = OwnerAfter(s, pc_after)
    /\ UNCHANGED <<stats, max_cache_size, now, cache_ops, clast, payloads,
                   playerVars, sim, batch>>

\* cache_strategy: self.cache[game_state_hash] = cached_strategy, the stats,
\* and the return of the strategy
InsertEntry(s) ==
    /\ tasks[s].pc = "insert"
    /\ CanRun(s)
    /\ LET gs == tasks[s].game_state
           key == _calculate_game_state_hash(gs)
           evicted == tasks[s].victims # <<>>
       IN  /\ cache' = Assign(cache, Entry(key, GameTheoryStrategy, gs, now))
           /\ stats' = [stats EXCEPT !.cache_size = Len(cache')]
           /\ conc_log' = [conc_log EXCEPT
                  !.stores = @ + 1,
                  !.hits_seen = {h \in @ : h.key # key},
                  !.removed_wrong =
                      \/ @
                      \/ /\ evicted
                         /\ Len(cache) # tasks[s].len_at_check
                                 - Len(tasks[s].victims)]
    /\ tasks' = [tasks EXCEPT ![s] =
                    [Returned(@) EXCEPT !.last_stored =
                        _calculate_game_state_hash(tasks[s].game_state)]]
    /\ loop_owner' = OwnerAfter(s, "idle")
    /\ UNCHANGED <<max_cache_size, now, cache_ops, clast, payloads,
                   playerVars, sim, batch>>

PlayerIdle ==
    /\ pc = "idle"
    /\ constraints = <<>>
    /\ strategy = fallback_strategy
    /\ slots_filled = 0
    /\ rejections = 0
    /\ slots_remaining = VenueCapacity
    /\ recent_decisions = <<>>
    /\ response = NoPerson
    /\ result = NoResult
    /\ cycles = 0
    /\ advisor_log = "none"
    /\ last = NoLast
    /\ wire = NoWire

\* StrategyCache.__init__; nothing has been cached
CacheIdle ==
    /\ cache = <<>>
    /\ stats = EmptyStats
    /\ max_cache_size = default_max_cache_size
    /\ now = 0
    /\ cache_ops = 0
    /\ clast = NoCacheLast
    /\ payloads = {}

SimIdle == sim = NoSim

BatchIdle == batch = NoBatch

ConcIdle ==
    /\ tasks = [s \in Sessions |-> NoTask]
    /\ loop_owner = 0
    /\ conc_log = NoConcLog

OthersIdle == BatchIdle /\ ConcIdle

\* the game driver
Init == (InitFresh \/ InitUnderWay) /\ CacheIdle /\ SimIdle /\ OthersIdle

Next == StartGame \/ DecideAndNext \/ Finish

Spec == Init /\ [][Next]_vars

(* The cache.  max_cache_size is set to 2 or to 5, and the cache is empty  *)
(* or full after that many cache_strategy calls at minute 0.               *)
CacheSizes == {2, 5}

FillOrder ==
    <<FirstState, FarState>>
    \o [i \in 1..3 |-> GS(100 * i + 401, 100 * i + 400,
                          <<Con("young", 600, 100 * i + 400)>>, Freq(32, 32))]

RECURSIVE StoreAll(_, _, _)
StoreAll(c, max, todo) ==
    IF todo = <<>> THEN c
    ELSE StoreAll(CacheAfterStore(c, max, Head(todo), GameTheoryStrategy, 0),
                  max, Tail(todo))

InitCache ==
    /\ PlayerIdle
    /\ SimIdle
    /\ OthersIdle
    /\ now = 0
    /\ cache_ops = 0
    /\ clast = NoCacheLast
    /\ \E size \in CacheSizes, filled \in BOOLEAN :
        LET stored == IF filled THEN SubSeq(FillOrder, 1, size) ELSE <<>>
        IN  /\ max_cache_size = size
            /\ cache = StoreAll(<<>>, size, stored)
            /\ payloads = {[game_state |-> stored[i],
                            strategy |-> GameTheoryStrategy] :
                              i \in 1..Len(stored)}
    /\ stats = [EmptyStats EXCEPT !.cache_size = Len(cache)]

NextCache == Lookup \/ Store \/ ProviderRequest \/ ClearCache \/ Tick

CacheSpec == InitCache /\ [][NextCache]_vars

\* the counters of the cache: one lookup missed on the empty cache before
\* the cache was filled, then lookups, stores, clears and reports
InitStats ==
    /\ PlayerIdle
    /\ SimIdle
    /\ OthersIdle
    /\ now = 0
    /\ cache_ops = 0
    /\ clast = NoCacheLast
    /\ \E size \in CacheSizes, filled \in BOOLEAN :
        LET stored == IF filled THEN SubSeq(FillOrder, 1, size) ELSE <<>>
        IN  /\ max_cache_size = size
            /\ cache = StoreAll(<<>>, size, stored)
            /\ payloads = {[game_state |-> stored[i],
                            strategy |-> GameTheoryStrategy] :
                              i \in 1..Len(stored)}
    /\ stats = [StatsAfterLookup(EmptyStats, FALSE)
                   EXCEPT !.cache_size = Len(cache)]

NextStats == Lookup \/ Store \/ ClearCache \/ GetCacheStats \/ Tick

StatsSpec == InitStats /\ [][NextStats]_vars

\* the similarity function on pairs of game states
InitSim ==
    /\ PlayerIdle
    /\ CacheIdle
    /\ OthersIdle
    /\ \E s1 \in SimGameStates, s2 \in SimGameStates :
          sim = [state1 |-> s1, state2 |-> s2, value |-> NotCalculated]

NextSim == CalculateSimilarity

SimSpec == InitSim /\ [][NextSim]_vars

-----------------------------------------------------------------------------
(* Properties of the session *)

Deficit(cons, attr) ==
    IF Needed(cons, attr) > 0 THEN Needed(cons, attr) ELSE 0

\* the last iteration decided a person who carries an attribute whose
\* deficit is at least the number of slots that were left
PanicCase ==
    /\ last.op = "cycle"
    /\ last.decided
    /\ \E attr \in DOMAIN last.cons :
          /\ Deficit(last.cons, attr) >= last.slots
          /\ attr \in last.attributes

\* C1, as claimed: whenever a tracked attribute the person carries has
\* deficit >= slots remaining, the person is admitted, also with 0 slots left.
C1_PanicAdmitsAlways == PanicCase => last.admit

\* C1, amended: whenever a tracked attribute the person carries has
\* deficit >= slots remaining and at least one slot is left, the person is
\* admitted whatever the strategy; with no slot left the person is rejected.
C1_PanicAdmitsWhileSlotsLeft ==
    PanicCase => (last.admit <=> last.slots > 0)

\* C1 witness: panic mode admitted a person whom the strategy's own rule
\* (the combined-value rule of an unrecognised policy type) would reject
C1_Witness ==
    /\ PanicCase
    /\ last.slots > 0
    /\ last.admit
    /\ PolicyType(strategy) = "Fixed"
    /\ ~_combined_value_logic(strategy, last.cons, last.slots, last.attributes)

\* C2: after every update_state, slots_remaining = 1000 - slots_filled and
\* slots_remaining >= 0: the admissions never exceed the capacity.
C2_CapacityInvariant ==
    /\ slots_remaining = VenueCapacity - slots_filled
    /\ slots_remaining >= 0
    /\ slots_filled <= VenueCapacity

\* C2 witness: the venue is full and the server sent one more person, who
\* carries a tracked attribute and was decided
C2_Witness ==
    /\ last.op = "cycle"
    /\ last.decided
    /\ last.slots = 0
    /\ last.attributes \cap DOMAIN last.cons # {}
    /\ slots_filled = VenueCapacity

C4_Outcomes == FailureKinds \cup {"json_scalar", "json_list", "json_string"}

\* C4, as claimed: after a review that timed out, got an HTTP error, a
\* transport error, a body that is no JSON or a JSON body that is no object,
\* the person is decided and no exception leaves the loop.
C4_ReviewNeverAborts ==
    (/\ last.op = "cycle"
     /\ last.reviews = 1
     /\ last.outcome.kind \in C4_Outcomes)
    => (last.decided /\ pc # "crashed")

C6_InvalidResponseRejected ==
    (/\ last.reviews = 1
     /\ last.outcome.kind = "json_object"
     /\ ~SchemaValid(last.outcome.body))
    => (strategy # last.outcome.body /\ strategy = last.strategy_before)

\* the last 25 decisions before the last iteration hold no admission
C10_NoRecentAdmission ==
    \A i \in 1..Len(last.recent) :
        i > Len(last.recent) - recent_acceptance_window => ~last.recent[i]

C10_Scheduled ==
    last.person_index > 0 /\ last.person_index % 100 = 0

C10_Emergency ==
    last.person_index > 450 /\ C10_NoRecentAdmission

\* C10: an iteration makes exactly one provider call if personIndex > 0 and
\* personIndex % 100 = 0, or personIndex > 450 and the last 25 decisions hold
\* no admission; it makes none otherwise, and never two.
C10_ReviewScheduling ==
    last.op = "cycle" =>
        last.reviews = (IF C10_Scheduled \/ C10_Emergency THEN 1 ELSE 0)

\* C10 witness: both conditions held (person 500 after 25 rejections) and
\* one review was made
C10_Witness ==
    /\ last.op = "cycle"
    /\ C10_Scheduled
    /\ C10_Emergency
    /\ last.reviews = 1

-----------------------------------------------------------------------------
(* Properties of the cache *)

\* the cache held, when the last operation began, an unexpired entry of
\* the fingerprint of the game state asked for
EntryPresent ==
    \E i \in 1..Len(clast.cache_before) :
        /\ SameFingerprint(clast.cache_before[i].original_game_state,
                           clast.game_state)
        /\ _is_cache_valid(clast.cache_before[i], clast.now)

LastStored ==
    {r \in payloads : SameFingerprint(r.game_state, clast.game_state)}

\* C7 (cache determinism): a get_cached_strategy call, direct or on the
\* provider path, for a game state of whose fingerprint the cache holds an
\* unexpired entry is a hit that returns the strategy parameters last given
\* to cache_strategy for that fingerprint; the provider path then returns
\* them without calling the model and without caching anything.
C7_CacheDeterminism ==
    (clast.op \in {"lookup", "provider"} /\ EntryPresent)
        => /\ clast.hit
           /\ ~clast.model_called
           /\ ~clast.stored
           /\ LastStored # {}
           /\ \A r \in LastStored :
                 StrategyParams(clast.returned) = r.strategy

\* the provider path is asked for a game state whose constraints come in
\* another order than those of the state cached, and its entry is unexpired
C7_Witness ==
    /\ clast.op = "provider"
    /\ EntryPresent
    /\ clast.hit
    /\ \A i \in 1..Len(clast.cache_before) :
          clast.cache_before[i].original_game_state # clast.game_state
    /\ clast.now > 0

\* C8 (eviction bound): the number of entries never exceeds max_cache_size,
\* whatever max_cache_size is set to.
C8_EvictionBound == Len(cache) <= max_cache_size

-----------------------------------------------------------------------------
(* Properties of the similarity *)

\* C9 (similarity boundedness): _calculate_similarity returns a value in
\* [0, 1] for every pair of game states, and exactly 1 for a game state and
\* itself.
C9_SimilarityBounded ==
    sim.value # NotCalculated
        => /\ 0 <= sim.value
           /\ sim.value <= SimOne
           /\ sim.state1 = sim.state2 => sim.value = SimOne

\* a state far into the game, with constraints, compared with itself
C9_Witness ==
    /\ sim.value = SimOne
    /\ sim.state1 = sim.state2
    /\ sim.state1.current_person > PersonSpan
    /\ Len(sim.state1.constraints) > 1


-----------------------------------------------------------------------------
(* Properties of the ledger and of the protocol *)

\* C11 (ledger record effect): after update_state for an admission the
\* admitted count of every tracked attribute the candidate carries is one
\* more than before and every other admitted count is what it was; after
\* a rejection every admitted count, slots_filled and slots_remaining are
\* what they were; no iteration changes a target or lowers an admitted
\* count.
C11_LedgerRecordEffect ==
    (last.op = "cycle" /\ last.decided)
        => /\ DOMAIN constraints = DOMAIN last.cons
           /\ \A a \in DOMAIN constraints :
                 /\ constraints[a].target = last.cons[a].target
                 /\ constraints[a].admitted >= last.cons[a].admitted
                 /\ constraints[a].admitted =
                       last.cons[a].admitted
                       + (IF last.admit /\ a \in last.attributes THEN 1 ELSE 0)
           /\ ~last.admit => /\ slots_filled = last.filled
                             /\ slots_remaining = last.slots
           /\ last.admit => /\ slots_filled = last.filled + 1
                            /\ slots_remaining = last.slots - 1

\* an admission of a candidate who carries one tracked attribute and lacks
\* another one whose admitted count is already positive
C11_Witness ==
    /\ last.op = "cycle" /\ last.decided /\ last.admit
    /\ \E a \in DOMAIN constraints, b \in DOMAIN constraints :
             /\ a \in last.attributes
             /\ b \notin last.attributes
             /\ constraints[a].admitted = last.cons[a].admitted + 1
             /\ constraints[b].admitted = last.cons[b].admitted
             /\ constraints[b].admitted > 0


\* C19 (phase selection by arrival index): when panic mode does not fire,
\* a Hybrid strategy decides the candidate by the max-urgency rule exactly
\* when the candidate's personIndex is below phase_switch_point, and by the
\* combined-value rule otherwise.
C19_PhaseByArrivalIndex ==
    (/\ last.op = "cycle"
     /\ last.decided
     /\ last.rule # "panic"
     /\ PolicyType(strategy) = "Hybrid")
        => (last.rule = "max_urgency"
              <=> last.person_index < PhaseSwitchPoint(strategy))

\* the ledger with every admitted count above its target set to the target
Clamped(cons) ==
    [a \in DOMAIN cons |->
        IF cons[a].admitted > cons[a].target
        THEN [cons[a] EXCEPT !.admitted = cons[a].target]
        ELSE cons[a]]

\* C20 (deficit is max(0, target - admitted)): every decision of the
\* max-urgency rule and of the combined-value rule is the decision the same
\* rule makes when each admitted count above its target is taken as equal
\* to the target, so an attribute over its target contributes urgency 0.
C20_DeficitNeverNegative ==
    (/\ last.op = "cycle"
     /\ last.decided
     /\ last.rule # "panic")
        => last.admit = should_admit(strategy, Clamped(last.cons), last.filled,
                                     last.slots, last.attributes)


\* the person the driver holds and has not decided yet
Pending == IF pc = "running" /\ response.hasNext THEN 1 ELSE 0

\* C12 (strictly sequential protocol): every person received has exactly
\* one decision, submitted with that person's personIndex and in the order
\* of arrival, before any later person is decided (at most the person just
\* received is still without one, and only while the session runs); no
\* personIndex is submitted twice; and the accept value submitted is the
\* value update_state recorded for that person.
C12_SequentialProtocol ==
    /\ Len(wire.sent) = Len(wire.received) - Pending
    /\ \A i \in 1..Len(wire.sent) :
          /\ i <= Len(wire.received)
          /\ wire.sent[i].personIndex = wire.received[i]
    /\ \A i, j \in 1..Len(wire.sent) :
          i # j => wire.sent[i].personIndex # wire.sent[j].personIndex
    /\ (last.op = "cycle" /\ last.decided) =>
          /\ wire.sent # <<>>
          /\ recent_decisions # <<>>
          /\ wire.sent[Len(wire.sent)].personIndex = last.person_index
          /\ wire.sent[Len(wire.sent)].accept =
                AcceptParam(recent_decisions[Len(recent_decisions)])
          /\ (wire.sent[Len(wire.sent)].accept = "true")
                <=> (slots_filled = last.filled + 1)

\* the response the driver holds is a terminal signal of the server
TerminalSignal ==
    /\ ~response.hasNext
    /\ pc \in {"running", "completed", "failed"}
    /\ ~(last.op = "start" /\ pc = "failed")

C13_Returned ==
    (TerminalSignal /\ pc # "running") =>
        /\ (response.status = "completed" /\ response.rejectedCount # NoCount)
              => (pc = "completed" /\ result = response.rejectedCount)
        /\ response.status = "failed"
              => (pc = "failed" /\ result = FailedScore)

C13_Stops ==
    /\ (pc = "running" /\ ~response.hasNext)
          => /\ wire' = wire
             /\ last'.reviews = 0
             /\ advisor_log' = advisor_log
             /\ pc' \in {"completed", "failed"}
    /\ pc \in {"completed", "failed"}
          => /\ wire' = wire
             /\ advisor_log' = advisor_log

\* C13 (terminal handling): once the response holds no next person or has
\* status completed or failed, the driver submits no further decision and
\* consults the advisor no more; a completed signal ends the session as
\* Completed with the server's rejectedCount as the result, a failed status
\* ends it as Failed with -1.
C13_TerminalHandling == [] C13_Returned /\ [][C13_Stops]_vars

\* a session that decided two persons and was then told it is completed,
\* with one rejection or more counted by the server
C13_Witness ==
    /\ pc = "completed"
    /\ last.op = "cycle"
    /\ response.status = "completed"
    /\ Len(wire.sent) >= 2
    /\ result >= 1
    /\ result = response.rejectedCount

\* C14 (game-server errors are fatal, not retried): after a transport
\* error or a malformed response on a game-server call, as after a failed
\* status, the session is Failed and play_game has returned -1.
C14_ServerErrorsAreFatal ==
    last.cause = "server" => (pc = "failed" /\ result = FailedScore)

-----------------------------------------------------------------------------
(* Properties of the cache, continued *)

\* the age, at the last cache operation, of entry i of the cache it met
AgeAtLookup(i) == clast.now - clast.cache_before[i].timestamp

\* C16 (TTL expiry): the entry get_cached_strategy returns, by exact match
\* or by similarity match, is less than 30 minutes old; when every entry
\* of the cache is 30 minutes old or older the lookup is a miss, counted as
\* a miss in the stats and returning nothing.
C16_TTLExpiry ==
    clast.op \in {"lookup", "provider"} =>
        /\ clast.hit =>
              /\ clast.index \in 1..Len(clast.cache_before)
              /\ AgeAtLookup(clast.index) < max_age_minutes
              /\ cache[clast.index].hit_count =
                    clast.cache_before[clast.index].hit_count + 1
        /\ (\A i \in 1..Len(clast.cache_before) :
                AgeAtLookup(i) >= max_age_minutes) => ~clast.hit
        /\ (clast.op = "lookup" /\ ~clast.hit) =>
              /\ clast.returned = NonDict("none")
              /\ cache = clast.cache_before
        /\ stats.total_requests = stats.hits + stats.misses

\* a lookup of a fingerprint whose entry is exactly 30 minutes old: a miss
C16_Witness ==
    /\ clast.op = "lookup"
    /\ ~clast.hit
    /\ \E i \in 1..Len(clast.cache_before) :
          /\ clast.cache_before[i].game_state_hash =
                _calculate_game_state_hash(clast.game_state)
          /\ AgeAtLookup(i) = max_age_minutes

-----------------------------------------------------------------------------
(* The batch as a specification *)

InitBatch ==
    /\ PlayerIdle
    /\ CacheIdle
    /\ SimIdle
    /\ ConcIdle
    /\ \E list \in ScenarioLists :
          batch = [NoBatch EXCEPT !.phase = "loop", !.scenarios = list,
                                  !.pos = 1]

NextBatch == PlayScenario \/ PrintResults

BatchSpec == InitBatch /\ [][NextBatch]_vars

RECURSIVE SumCompleted(_)
SumCompleted(scores) ==
    IF scores = <<>> THEN 0
    ELSE (IF Head(scores) \in {FailedScore, Raised} THEN 0 ELSE Head(scores))
         + SumCompleted(Tail(scores))

\* C15 (batch behaviour): the scenarios started are a prefix of the list,
\* in list order; no scenario is started after a session that failed (only
\* the last session started can have returned -1); and the total printed
\* is the sum of the rejection counts of the sessions that completed.
C15_BatchBehaviour ==
    /\ Len(batch.started) <= Len(batch.scenarios)
    /\ batch.started = SubSeq(batch.scenarios, 1, Len(batch.started))
    /\ Len(batch.scores) = Len(batch.started)
    /\ \A i \in 1..Len(batch.scores) :
          batch.scores[i] \in {FailedScore, Raised} => i = Len(batch.scores)
    /\ batch.phase = "printed" =>
          batch.printed_total = SumCompleted(batch.scores)

\* a batch whose second session failed after a first one that completed,
\* with a scenario of the list left unplayed, and that printed its total
C15_Witness ==
    /\ batch.phase = "printed"
    /\ Len(batch.scores) = 2
    /\ batch.scores[1] > 0
    /\ batch.scores[2] = FailedScore
    /\ Len(batch.scenarios) = 3
    /\ batch.printed_total = batch.scores[1]

-----------------------------------------------------------------------------
(* The concurrent requests as a specification: the cache is full, or has   *)
(* one slot left                                                           *)

InitConc ==
    /\ PlayerIdle
    /\ SimIdle
    /\ BatchIdle
    /\ ConcIdle
    /\ max_cache_size = ConcCacheSize
    /\ now = ConcCacheSize
    /\ \E n \in {ConcCacheSize - 1, ConcCacheSize} :
          cache = SubSeq(ConcCache, ConcCacheSize - n + 1, ConcCacheSize)
    /\ stats = [EmptyStats EXCEPT !.cache_size = Len(cache)]
    /\ cache_ops = 0
    /\ clast = NoCacheLast
    /\ payloads = {}

NextConc ==
    \E s \in Sessions :
        \/ FindEntry(s)
        \/ ReadHitCount(s)
        \/ WriteHitCount(s)
        \/ Calculate(s)
        \/ ModelAnswered(s)
        \/ CheckFull(s)
        \/ SortEntries(s)
        \/ DeleteEntry(s)
        \/ InsertEntry(s)

ConcSpec == InitConc /\ [][NextConc]_vars


\* C17 (store and eviction exclude other cache operations): of two
\* cache_strategy calls of concurrent requests at most one runs an eviction
\* round; no deletion meets a key that is gone; a round takes exactly 20%
\* of the entries the call found; the keys of the cache are distinct and
\* no more than max_cache_size; the entry each call stored is in the cache;
\* and no lookup reads the cache while an eviction loop is under way.
C17_StoreEvictExclusive ==
    /\ conc_log.store_calls <= 2 => conc_log.evict_rounds <= 1
    /\ conc_log.key_errors = 0
    /\ ~conc_log.removed_wrong
    /\ ~conc_log.saw_partial
    /\ Len(cache) <= max_cache_size
    /\ \A i, j \in 1..Len(cache) :
          i # j => cache[i].game_state_hash # cache[j].game_state_hash
    /\ \A s \in Sessions :
          tasks[s].last_stored # NoKey =>
              IndexOf(cache, tasks[s].last_stored) # 0

\* on a cache that was full, the requests of the two sessions were in
\* flight together (one awaiting the model), both stored their new entry,
\* and one eviction round was made
C17_Witness ==
    /\ conc_log.overlapped
    /\ conc_log.stores = 2
    /\ conc_log.evict_rounds = 1
    /\ \A s \in Sessions :
          /\ tasks[s].last_stored = _calculate_game_state_hash(ConcNew(s))
          /\ IndexOf(cache, tasks[s].last_stored) # 0
    /\ Len(cache) = ConcCacheSize

\* C18 (hit_count is incremented atomically): the hit_count of every
\* entry is the number of lookups that have hit it since it was stored.
C18_HitCountAtomic ==
    \A i \in 1..Len(cache) :
        cache[i].hit_count = HitsSeen(conc_log, cache[i].game_state_hash)

\* the lookups of both sessions hit the same entry, whose hit_count is 2
C18_Witness ==
    \E i \in 1..Len(cache) :
        /\ cache[i].hit_count = Cardinality(Sessions)
        /\ \A s \in Sessions : tasks[s].last_hit = cache[i].game_state_hash

-----------------------------------------------------------------------------
(* Properties of the two rules, the dispatch and the reviews *)

\* the tracked attributes the person of the last iteration carries
Carried == last.attributes \cap DOMAIN last.cons

\* the largest deficit among the attributes in S, 0 for none
MaxDeficit(cons, S) ==
    IF S = {} THEN 0 ELSE SetMax({Deficit(cons, a) : a \in S})

RECURSIVE SumDeficit(_, _)
SumDeficit(cons, S) ==
    IF S = {} THEN 0
    ELSE LET x == CHOOSE y \in S : TRUE
         IN  Deficit(cons, x) + SumDeficit(cons, S \ {x})

\* C21 (max-urgency rule): with maxUrgency the largest
\* deficit / slots_remaining among the tracked attributes the person
\* carries (0 for none) and deficit = max(0, target - admitted), the rule
\* admits exactly when maxUrgency >= 1.0 or
\* maxUrgency >= base_leniency + scaling_factor * slots_filled / 1000; a
\* person who carries no tracked attribute is rejected.
C21_MaxUrgencyRule ==
    (/\ last.op = "cycle"
     /\ last.decided
     /\ last.rule = "max_urgency"
     /\ last.slots > 0)
        => /\ last.admit <=>
                \/ MaxDeficit(last.cons, Carried) >= last.slots
                \/ MaxDeficit(last.cons, Carried) * 100 * VenueCapacity
                      >= last.slots * (BaseLeniency(strategy) * VenueCapacity
                                       + ScalingFactor(strategy) * last.filled)
           /\ Carried = {} => ~last.admit

\* C22 (combined-value rule): with sum the total of
\* deficit / slots_remaining over the tracked attributes the person
\* carries, the rule admits exactly when sum >= 1.0 + buffer_percent or
\* sum >= base_threshold, whatever the two parameters are.
C22_CombinedValueRule ==
    (/\ last.op = "cycle"
     /\ last.decided
     /\ last.rule = "combined_value"
     /\ last.slots > 0)
        => (last.admit <=>
              \/ SumDeficit(last.cons, Carried) * 100
                    >= last.slots * (100 + BufferPercent(strategy))
              \/ SumDeficit(last.cons, Carried) * 100
                    >= last.slots * BaseThreshold(strategy))

\* the active strategy decided the last person by one of the two rules
C29_ByRule ==
    /\ last.op = "cycle"
    /\ last.decided
    /\ last.rule \in {"max_urgency", "combined_value"}

\* the rule a Hybrid strategy of this switch point uses
C29_HybridRule(switch_point) ==
    IF last.filled < switch_point THEN "max_urgency" ELSE "combined_value"

C29_Named ==
    /\ ("policy_type" \in strategy.keys /\ strategy.policy_type = "MaxUrgency")
           => last.rule = "max_urgency"
    /\ ("policy_type" \in strategy.keys
           /\ strategy.policy_type \notin {"Hybrid", "MaxUrgency"})
           => last.rule = "combined_value"

\* C29, as claimed: when panic mode does not fire, policy_type MaxUrgency is
\* decided by the max-urgency rule whatever phase_switch_point is, any other
\* non-Hybrid policy_type by the combined-value rule, and a strategy without
\* policy_type as a Hybrid strategy with switch point 400.
C29_PolicyTypeDispatch ==
    C29_ByRule =>
        /\ C29_Named
        /\ "policy_type" \notin strategy.keys
               => last.rule = C29_HybridRule(400)

\* C29, amended: a strategy without policy_type is decided as a Hybrid
\* strategy with its own phase_switch_point, and with 400 only when it has
\* no phase_switch_point either; the two named cases are as claimed.
C29_PolicyTypeDispatchOwnSwitch ==
    C29_ByRule =>
        /\ C29_Named
        /\ ("policy_type" \notin strategy.keys
               /\ "phase_switch_point" \in strategy.keys)
               => last.rule = C29_HybridRule(strategy.phase_switch_point)
        /\ ("policy_type" \notin strategy.keys
               /\ "phase_switch_point" \notin strategy.keys)
               => last.rule = C29_HybridRule(400)

\* C29 witness: a strategy without policy_type whose phase_switch_point is 2
\* decided a person by the combined-value rule with 2 slots filled
C29_Witness ==
    /\ C29_ByRule
    /\ "policy_type" \notin strategy.keys
    /\ "phase_switch_point" \in strategy.keys
    /\ strategy.phase_switch_point <= last.filled
    /\ last.filled < 400
    /\ last.rule = "combined_value"


\* the iteration l met a person after number 450 with 25 recorded decisions
\* behind it, all of them rejections
C28_Stalled(l) ==
    /\ l.op = "cycle"
    /\ l.person_index > EmergencyAfterPerson
    /\ Len(l.recent) >= recent_acceptance_window
    /\ \A i \in 1..Len(l.recent) :
          i > Len(l.recent) - recent_acceptance_window => ~l.recent[i]

C28_Successive ==
    (last'.op = "cycle" /\ cycles' = cycles + 1) =>
        /\ C28_Stalled(last') => last'.reviews = 1
        /\ (C28_Stalled(last) /\ last.decided /\ ~last.admit)
              => (last.reviews = 1 /\ last'.reviews = 1)
        /\ (C28_Stalled(last) /\ last'.reviews = 0)
              => (last.admit /\ \E i \in 1..Len(last'.recent) : last'.recent[i])

\* C28: while personIndex > 450 and the 25 most recent decisions are all
\* rejections, every iteration makes a review: an iteration that follows a
\* stalled one that rejected its person makes a review again, and an
\* iteration after a stalled one goes without review only when an admission
\* has entered the window of 25 decisions.
C28_EmergencyRetriggers == [][C28_Successive]_vars

\* C28 witness: two successive iterations at no multiple of 100 made an
\* emergency review each, the second after the first rejected its person
C28_Witness ==
    /\ last.op = "cycle"
    /\ last.streak >= 2
    /\ last.reviews = 1
    /\ C28_Stalled(last)
    /\ last.person_index % STRATEGIC_REVIEW_INTERVAL # 0


\* by how much the quota of attribute a exceeds the slots that remain
C30_Gap(cons, slots, a) == (cons[a].target - cons[a].admitted) - slots

C30_GapStep(a) ==
    C30_Gap(constraints, slots_remaining, a)
        - C30_Gap(last.cons, last.slots, a)

\* C30: for each tracked attribute the gap (target - admitted) -
\* slots_remaining is unchanged by a rejection and by the admission of a
\* holder and grows by one when a non-holder is admitted; a quota whose gap
\* was positive before the decision is not met after it.
C30_UnreachableStaysUnreachable ==
    (last.op = "cycle" /\ last.decided) =>
        \A a \in DOMAIN last.cons :
            /\ C30_GapStep(a) = (IF last.admit /\ a \notin last.attributes
                                 THEN 1 ELSE 0)
            /\ C30_Gap(last.cons, last.slots, a) > 0
                  => /\ C30_Gap(constraints, slots_remaining, a) > 0
                     /\ constraints[a].admitted < constraints[a].target

\* C30 witness: the admission of a person without the attribute made its
\* quota unreachable, and the session ended as completed with that quota
\* not met
C30_Witness ==
    /\ last.op = "cycle"
    /\ last.decided
    /\ last.admit
    /\ pc = "completed"
    /\ \E a \in DOMAIN last.cons \ last.attributes :
          /\ C30_Gap(last.cons, last.slots, a) = 0
          /\ C30_Gap(constraints, slots_remaining, a) = 1
          /\ constraints[a].admitted < constraints[a].target


-----------------------------------------------------------------------------
(* Properties of the similarity lookup, the eviction and the counters *)

\* the admitted count a constraint list holds for an attribute
C24_AdmittedOf(cons, attr) ==
    IF \E i \in 1..Len(cons) : cons[i].attribute = attr
    THEN LET i == CHOOSE i \in 1..Len(cons) :
                    /\ cons[i].attribute = attr
                    /\ \A j \in 1..Len(cons) :
                          cons[j].attribute = attr => j <= i
         IN  cons[i].admitted
    ELSE 0

\* two game states with the same targets whose admitted counts differ by
\* 200 or more for some attribute
C24_DeficitsApart(s1, s2) ==
    /\ AttrsOf(s1.constraints) = AttrsOf(s2.constraints)
    /\ \A a \in AttrsOf(s1.constraints) :
          MinCountOf(s1.constraints, a) = MinCountOf(s2.constraints, a)
    /\ \E a \in AttrsOf(s1.constraints) :
          Abs(C24_AdmittedOf(s1.constraints, a)
              - C24_AdmittedOf(s2.constraints, a)) >= ConstraintSpan

\* C24: two game states with identical targets whose admitted counts for one
\* attribute differ by 200 or more have constraint similarity 0, so their
\* similarity does not reach the threshold 0.85.
C24_ConstraintTermUsesDeficits ==
    (sim.value # NotCalculated /\ C24_DeficitsApart(sim.state1, sim.state2))
        => ~ReachesThreshold(sim.value)


\* C26: a lookup changes nothing in the cache except the hit count of the
\* matched entry: payload with its metadata, creation time and fingerprint of
\* every entry are as before the call, the matched entry's hit_count is one
\* higher, and a miss changes no entry.
C26_LookupChangesOnlyHitCount ==
    clast.op = "lookup" =>
        /\ Len(cache) = Len(clast.cache_before)
        /\ \A i \in 1..Len(cache) :
              /\ cache[i].strategy = clast.cache_before[i].strategy
              /\ cache[i].meta = clast.cache_before[i].meta
              /\ cache[i].timestamp = clast.cache_before[i].timestamp
              /\ cache[i].game_state_hash
                    = clast.cache_before[i].game_state_hash
              /\ cache[i].hit_count
                    = clast.cache_before[i].hit_count
                        + (IF clast.hit /\ i = clast.index THEN 1 ELSE 0)
        /\ ~clast.hit => cache = clast.cache_before


\* the last operation ran cache_strategy
C25_Stored == clast.op \in {"store", "provider"} /\ clast.stored

C25_Full == Len(clast.cache_before) >= max_cache_size

C25_NewHash == _calculate_game_state_hash(clast.game_state)

\* entry i of the cache as it was comes before entry j, or ties with it, in
\* the order (creation time, hit count) ascending
C25_NotAfter(i, j) ==
    \/ clast.cache_before[i].timestamp < clast.cache_before[j].timestamp
    \/ /\ clast.cache_before[i].timestamp = clast.cache_before[j].timestamp
       /\ clast.cache_before[i].hit_count <= clast.cache_before[j].hit_count

\* the cache after the call holds the entries of before outside R, and the
\* entry inserted
C25_RemovedAre(R) ==
    LET before == clast.cache_before
        kept == {before[i].game_state_hash : i \in (1..Len(before)) \ R}
    IN  /\ {cache[k].game_state_hash : k \in 1..Len(cache)}
              = kept \cup {C25_NewHash}
        /\ Len(cache) = Cardinality(kept \cup {C25_NewHash})
        /\ \A i \in (1..Len(before)) \ R :
              before[i].game_state_hash # C25_NewHash
                  => \E k \in 1..Len(cache) : cache[k] = before[i]
        /\ \E k \in 1..Len(cache) :
              /\ cache[k].game_state_hash = C25_NewHash
              /\ cache[k].timestamp = clast.now
              /\ cache[k].hit_count = 0

\* C25: cache_strategy on a full cache removes, before it inserts, exactly
\* floor(20% of the entries), every removed entry is less than or equal to
\* every surviving one in the order (creation time, hit count), the entry
\* inserted is in the cache afterwards, and on a cache that is not full
\* nothing is removed.
C25_EvictionOrder ==
    C25_Stored =>
        \E R \in SUBSET (1..Len(clast.cache_before)) :
            /\ Cardinality(R) = (IF C25_Full
                                 THEN Len(clast.cache_before) \div 5 ELSE 0)
            /\ \A r \in R, s \in (1..Len(clast.cache_before)) \ R :
                  C25_NotAfter(r, s)
            /\ C25_RemovedAre(R)

\* C25 witness: a store on a full cache of five entries of the same minute
\* removed the second one and kept the first, which had been hit
C25_Witness ==
    /\ C25_Stored
    /\ C25_Full
    /\ Len(clast.cache_before) = 5
    /\ clast.cache_before[1].hit_count > clast.cache_before[2].hit_count
    /\ clast.cache_before[1].timestamp = clast.cache_before[2].timestamp
    /\ \E k \in 1..Len(cache) : cache[k] = clast.cache_before[1]
    /\ \A k \in 1..Len(cache) :
          cache[k].game_state_hash # clast.cache_before[2].game_state_hash


\* entry i of the cache as it was at the last lookup had not expired
C23_Unexpired(i) == _is_cache_valid(clast.cache_before[i], clast.now)

\* its similarity to the game state asked for
C23_Similarity(i) ==
    _calculate_similarity(clast.game_state,
                          clast.cache_before[i].original_game_state)

C23_NoValidExact ==
    /\ clast.op \in {"lookup", "provider"}
    /\ ~\E i \in 1..Len(clast.cache_before) :
          /\ clast.cache_before[i].game_state_hash
                = _calculate_game_state_hash(clast.game_state)
          /\ C23_Unexpired(i)

\* C23: when no valid exact match exists, get_cached_strategy hits if and
\* only if some unexpired entry has similarity >= 0.85 to the game state
\* asked for, and the entry it returns is unexpired and has the highest
\* similarity among all unexpired entries; otherwise the result is a miss.
C23_SimilarityLookup ==
    C23_NoValidExact =>
        /\ clast.hit <=>
              \E i \in 1..Len(clast.cache_before) :
                  C23_Unexpired(i) /\ ReachesThreshold(C23_Similarity(i))
        /\ clast.hit =>
              /\ clast.index \in 1..Len(clast.cache_before)
              /\ C23_Unexpired(clast.index)
              /\ ReachesThreshold(C23_Similarity(clast.index))
              /\ \A j \in 1..Len(clast.cache_before) :
                    C23_Unexpired(j)
                        => C23_Similarity(j) <= C23_Similarity(clast.index)
              /\ clast.returned = clast.cache_before[clast.index].strategy
        /\ ~clast.hit => clast.index = 0

\* C23 witness: two unexpired entries reached the threshold and the lookup
\* returned the later one, whose similarity is the higher
C23_Witness ==
    /\ C23_NoValidExact
    /\ clast.hit
    /\ \E j \in 1..Len(clast.cache_before) :
          /\ j < clast.index
          /\ C23_Unexpired(j)
          /\ ReachesThreshold(C23_Similarity(j))
          /\ C23_Similarity(j) < C23_Similarity(clast.index)


\* C27, the counters: hits + misses = total_requests, every lookup adds one
\* to total_requests and one to hits or to misses, cache_size is the number
\* of entries after each store, and a clear resets all four
C27_Counters ==
    /\ stats.hits + stats.misses = stats.total_requests
    /\ clast.op = "lookup" =>
          /\ stats.total_requests = clast.stats_before.total_requests + 1
          /\ stats.hits = clast.stats_before.hits + (IF clast.hit THEN 1 ELSE 0)
          /\ stats.misses
                = clast.stats_before.misses + (IF clast.hit THEN 0 ELSE 1)
          /\ stats.cache_size = clast.stats_before.cache_size
    /\ clast.op = "store" =>
          /\ stats.cache_size = Len(cache)
          /\ stats.hits = clast.stats_before.hits
          /\ stats.misses = clast.stats_before.misses
          /\ stats.total_requests = clast.stats_before.total_requests
    /\ clast.op = "clear" => stats = EmptyStats
    /\ clast.op = "stats" =>
          /\ stats = clast.stats_before
          /\ clast.report.hits = stats.hits
          /\ clast.report.misses = stats.misses
          /\ clast.report.total_requests = stats.total_requests
          /\ clast.report.cache_size = stats.cache_size

\* C27, as claimed: the counters stay consistent and the reported hit rate
\* is 100 * hits / total_requests, 0 when there were no requests.
C27_CountersAndExactRate ==
    /\ C27_Counters
    /\ clast.op = "stats" =>
          IF stats.total_requests = 0 THEN clast.report.hit_rate_percent = 0
          ELSE clast.report.hit_rate_percent * stats.total_requests
                   = HundredthsOfPercent * stats.hits

\* C27, amended: the counters stay consistent and the reported hit rate is
\* 100 * hits / total_requests rounded to two decimals, that is within half
\* a hundredth of it, and 0 when there were no requests.
C27_CountersAndRoundedRate ==
    /\ C27_Counters
    /\ clast.op = "stats" =>
          IF stats.total_requests = 0 THEN clast.report.hit_rate_percent = 0
          ELSE 2 * Abs(clast.report.hit_rate_percent * stats.total_requests
                           - HundredthsOfPercent * stats.hits)
                   <= stats.total_requests

\* C27 witness: after two hits in three lookups the report gives 66.67
C27_Witness ==
    /\ clast.op = "stats"
    /\ stats.total_requests = 3
    /\ stats.hits = 2
    /\ clast.report.hit_rate_percent = 6667


=============================================================================
